---- MODULE Spec2Model ----
(***************************************************************************)
(* Model of the email-domain-classifier scoring and arbitration engine:    *)
(* KeywordTaxonomyClassifier, StructuralTemplateClassifier,                *)
(* EmailClassifier (weighted combiner), LLMClassifier (retry loop and      *)
(* result conversion) and HybridClassifier (agree-or-escalate workflow and *)
(* its HybridWorkflowStats counters).                                      *)
(*                                                                         *)
(* Python floats are modelled as exact non-negative rationals <<n, d>> in  *)
(* lowest terms; Python's None is the string "None".  Text operations      *)
(* (regex match, substring test, substring count, split) are modelled by   *)
(* fact tables over a fixed collection of sender, subject and body texts.  *)
(***************************************************************************)
EXTENDS Integers, Sequences, FiniteSets, TLC

(***************************************************************************)
(* Bounds of the model.                                                    *)
(***************************************************************************)
MaxCalls == 2
MaxRetry == 1
MaxScorings == 3
ScoreSteps == 8
MaxClassifications == 2
MaxRows == 2
MaxRuns == 2
MaxSubmissions == 2

None == "None"

(***************************************************************************)
(* Exact rational arithmetic standing for float arithmetic.                *)
(***************************************************************************)
RECURSIVE GCD(_, _)
GCD(a, b) == IF b = 0 THEN a ELSE GCD(b, a % b)

R(n, d) == IF n = 0 THEN <<0, 1>> ELSE LET g == GCD(n, d) IN <<n \div g, d \div g>>

Zero == <<0, 1>>
RAdd(x, y) ==
    LET g == GCD(x[2], y[2])
    IN R(x[1] * (y[2] \div g) + y[1] * (x[2] \div g), (x[2] \div g) * y[2])
RMul(x, y) ==
    IF x[1] = 0 \/ y[1] = 0 THEN Zero
    ELSE LET g1 == GCD(x[1], y[2])
             g2 == GCD(y[1], x[2])
         IN <<(x[1] \div g1) * (y[1] \div g2), (x[2] \div g2) * (y[2] \div g1)>>
RDiv(x, y) == RMul(x, <<y[2], y[1]>>)
RLt(x, y) ==
    LET g == GCD(x[2], y[2])
    IN x[1] * (y[2] \div g) < y[1] * (x[2] \div g)
RLe(x, y) ==
    LET g == GCD(x[2], y[2])
    IN x[1] * (y[2] \div g) <= y[1] * (x[2] \div g)
RGt(x, y) == RLt(y, x)
RGe(x, y) == RLe(y, x)
RMin(x, y) == IF RLe(x, y) THEN x ELSE y
RMax(x, y) == IF RGe(x, y) THEN x ELSE y
RInt(n) == <<n, 1>>

\* score += ... over the terms of one score
RECURSIVE SumSeq(_)
SumSeq(s) == IF s = <<>> THEN Zero ELSE RAdd(s[1], SumSeq(Tail(s)))

\* sum(scores.values()), over the keys lo..hi of the dict
RECURSIVE SumIn(_, _, _, _)
SumIn(keys, scores, lo, hi) ==
    IF lo > hi THEN Zero
    ELSE IF lo = hi THEN scores[keys[lo]]
    ELSE RAdd(SumIn(keys, scores, lo, (lo + hi) \div 2),
              SumIn(keys, scores, (lo + hi) \div 2 + 1, hi))

Range(s) == {s[i] : i \in 1..Len(s)}

SumValues(keys, scores) == SumIn(keys, scores, 1, Len(keys))

\* of two keys, the later one only when its value is strictly greater
Better(a, b, scores) == IF RGt(scores[b], scores[a]) THEN b ELSE a

\* max(scores, key=lambda k: scores[k]) : the first key, in iteration order,
\* whose value is maximal
RECURSIVE MaxIn(_, _, _, _)
MaxIn(keys, scores, lo, hi) ==
    IF lo = hi THEN keys[lo]
    ELSE Better(MaxIn(keys, scores, lo, (lo + hi) \div 2),
                MaxIn(keys, scores, (lo + hi) \div 2 + 1, hi), scores)

MaxKey(keys, scores) == MaxIn(keys, scores, 1, Len(keys))

\* a dict built by a comprehension, as an explicit mapping
Dict(f) == f @@ f

(***************************************************************************)
(* Taxonomy: DomainProfile records.  A taxonomy is the ordered dict        *)
(* `domains` handed to the classifiers (a sequence of profiles, in dict    *)
(* insertion order; names are unique).                                     *)
(***************************************************************************)
Keywords == {"account", "bank", "balance", "statement", "transfer",
             "server", "software", "update", "tax", "permit", "notice"}

FinanceProfile ==
    [name |-> "finance",
     primary_keywords |-> {"bank", "balance", "statement"},
     secondary_keywords |-> {"transfer"},
     sender_patterns |-> <<".*@.*bank", "^alerts@">>,
     subject_patterns |-> <<"statement", "account">>,
     typical_body_length |-> <<100, 2000>>,
     has_greeting |-> TRUE, has_signature |-> TRUE, has_disclaimer |-> TRUE,
     url_expected |-> TRUE, formality_level |-> "formal",
     typical_paragraph_count |-> <<2, 6>>]

TechnologyProfile ==
    [name |-> "technology",
     primary_keywords |-> {"server", "software"},
     secondary_keywords |-> {"update"},
     sender_patterns |-> <<".*noreply@">>,
     subject_patterns |-> <<"release">>,
     typical_body_length |-> <<50, 1500>>,
     has_greeting |-> TRUE, has_signature |-> FALSE, has_disclaimer |-> FALSE,
     url_expected |-> TRUE, formality_level |-> "semi-formal",
     typical_paragraph_count |-> <<1, 4>>]

GovernmentProfile ==
    [name |-> "government",
     primary_keywords |-> {"tax", "permit"},
     secondary_keywords |-> {"notice"},
     sender_patterns |-> <<".*\\.gov$">>,
     subject_patterns |-> <<"notice">>,
     typical_body_length |-> <<200, 3000>>,
     has_greeting |-> TRUE, has_signature |-> TRUE, has_disclaimer |-> TRUE,
     url_expected |-> FALSE, formality_level |-> "formal",
     typical_paragraph_count |-> <<2, 8>>]

\* a profile that only knows the keyword "account"
GenericProfile(n) ==
    [name |-> n,
     primary_keywords |-> {"account"},
     secondary_keywords |-> {},
     sender_patterns |-> <<>>,
     subject_patterns |-> <<>>,
     typical_body_length |-> <<50, 5000>>,
     has_greeting |-> FALSE, has_signature |-> TRUE, has_disclaimer |-> TRUE,
     url_expected |-> TRUE, formality_level |-> "formal",
     typical_paragraph_count |-> <<1, 8>>]

\* the ten names of the default taxonomy (get_domain_names())
DefaultDomainNames ==
    <<"finance", "technology", "retail", "logistics", "healthcare",
      "government", "hr", "telecommunications", "social_media", "education">>

ExtraDomainNames ==
    <<"legal", "travel", "insurance", "energy", "media", "sports",
      "gaming", "charity", "realestate", "automotive", "agriculture",
      "hospitality", "science", "security", "fashion", "music">>

TaxSolo == <<GovernmentProfile>>

Tax3 == <<FinanceProfile, TechnologyProfile, GovernmentProfile>>

\* ten domains that share the keyword "account"; finance also knows "transfer"
\* and expects a greeting
Tax10 ==
    [i \in 1..Len(DefaultDomainNames) |->
        IF DefaultDomainNames[i] = "finance"
        THEN [GenericProfile("finance") EXCEPT !.secondary_keywords = {"transfer"},
                                               !.has_greeting = TRUE]
        ELSE GenericProfile(DefaultDomainNames[i])]

\* twenty-six domains with identical profiles
Tax26 ==
    [i \in 1..(Len(DefaultDomainNames) + Len(ExtraDomainNames)) |->
        GenericProfile((DefaultDomainNames \o ExtraDomainNames)[i])]

Taxonomies == {TaxSolo, Tax3, Tax10, Tax26}

DomainNames(domains) == [i \in 1..Len(domains) |-> domains[i].name]

ProfileOf(domains, n) == domains[CHOOSE i \in 1..Len(domains) : domains[i].name = n]

(***************************************************************************)
(* Email texts and the facts the classifiers extract from them.            *)
(***************************************************************************)
\* sender: the patterns p with re.compile(p, IGNORECASE).match(sender), and the
\* substring / regex facts _analyze_sender_structure reads
SenderFacts(sender) ==
    CASE sender = "alerts@bank.com" ->
            [matches |-> {".*@.*bank", "^alerts@"}, noreply |-> FALSE,
             dept |-> FALSE, gov |-> FALSE, edu |-> FALSE, com |-> TRUE]
      [] sender = "noreply@updates.io" ->
            [matches |-> {".*noreply@"}, noreply |-> TRUE,
             dept |-> FALSE, gov |-> FALSE, edu |-> FALSE, com |-> FALSE]
      [] sender = "info@agency.gov" ->
            [matches |-> {".*\\.gov$"}, noreply |-> FALSE,
             dept |-> TRUE, gov |-> TRUE, edu |-> FALSE, com |-> FALSE]
      [] OTHER ->
            [matches |-> {}, noreply |-> FALSE,
             dept |-> FALSE, gov |-> FALSE, edu |-> FALSE, com |-> FALSE]

\* subject: the keywords k with k in subject.lower(), and the patterns p with
\* re.compile(p, IGNORECASE).search(subject)
SubjectFacts(subject) ==
    CASE subject = "Your account statement is ready" ->
            [contains |-> {"account", "statement"}, matches |-> {"statement", "account"}]
      [] subject = "Server software release" ->
            [contains |-> {"server", "software"}, matches |-> {"release"}]
      [] subject = "Tax notice" ->
            [contains |-> {"tax", "notice"}, matches |-> {"notice"}]
      [] subject = "Account update" ->
            [contains |-> {"account", "update"}, matches |-> {"account"}]
      [] OTHER ->
            [contains |-> {}, matches |-> {}]

NoCounts == [k \in Keywords |-> 0]

\* body: len(body), len(body.lower().split()), body.lower().count(k) per
\* keyword, the greeting / signature / disclaimer regex searches, the number of
\* non-empty chunks of re.split(r"\n\s*\n", body), and the numbers of formal
\* and casual indicators contained in the body
BodyFacts(body) ==
    CASE body = "bank statement letter" ->
            [length |-> 320, words |-> 50,
             count |-> [NoCounts EXCEPT !["bank"] = 2, !["statement"] = 1,
                                        !["balance"] = 1, !["transfer"] = 1,
                                        !["account"] = 1],
             greeting |-> TRUE, signature |-> TRUE, disclaimer |-> TRUE,
             paragraphs |-> 3, formal |-> 2, casual |-> 0]
      [] body = "server update note" ->
            [length |-> 150, words |-> 25,
             count |-> [NoCounts EXCEPT !["server"] = 2, !["software"] = 1,
                                        !["update"] = 1],
             greeting |-> TRUE, signature |-> FALSE, disclaimer |-> FALSE,
             paragraphs |-> 2, formal |-> 0, casual |-> 0]
      [] body = "tax office notice" ->
            [length |-> 260, words |-> 40,
             count |-> [NoCounts EXCEPT !["tax"] = 1, !["permit"] = 1,
                                        !["notice"] = 1],
             greeting |-> TRUE, signature |-> TRUE, disclaimer |-> TRUE,
             paragraphs |-> 3, formal |-> 3, casual |-> 0]
      [] body = "long letter mentioning one transfer" ->
            [length |-> 1200, words |-> 200,
             count |-> [NoCounts EXCEPT !["transfer"] = 1],
             greeting |-> TRUE, signature |-> TRUE, disclaimer |-> TRUE,
             paragraphs |-> 4, formal |-> 2, casual |-> 0]
      [] body = "hundred words greeting and one transfer" ->
            [length |-> 600, words |-> 100,
             count |-> [NoCounts EXCEPT !["transfer"] = 1],
             greeting |-> TRUE, signature |-> TRUE, disclaimer |-> TRUE,
             paragraphs |-> 3, formal |-> 2, casual |-> 0]
      [] body = "hey!! cool btw" ->
            [length |-> 14, words |-> 3,
             count |-> NoCounts,
             greeting |-> FALSE, signature |-> FALSE, disclaimer |-> FALSE,
             paragraphs |-> 1, formal |-> 0, casual |-> 3]
      [] OTHER ->
            \* the empty body
            [length |-> 0, words |-> 0,
             count |-> NoCounts,
             greeting |-> FALSE, signature |-> FALSE, disclaimer |-> FALSE,
             paragraphs |-> 0, formal |-> 0, casual |-> 0]

\* EmailData
Email(sender, subject, body, urls) ==
    [sender |-> sender, subject |-> subject, body |-> body, urls |-> urls]

\* EmailData.has_url: bool(self.urls and self.urls.strip())
has_url(email) == email.urls # "" /\ email.urls # " "

(***************************************************************************)
(* ClassificationResult                                                    *)
(***************************************************************************)
ClassificationResult(domain, confidence, scores, method) ==
    [domain |-> domain, confidence |-> confidence, scores |-> scores,
     method |-> method]

NoResult == ClassificationResult(None, Zero, <<>>, "none")

(***************************************************************************)
(* Method 1: KeywordTaxonomyClassifier                                     *)
(***************************************************************************)
KeywordWeights ==
    [primary_keyword |-> R(3, 1), secondary_keyword |-> R(3, 2),
     sender_pattern |-> R(4, 1), subject_pattern |-> R(7, 2),
     subject_keyword |-> R(5, 2), body_keyword_density |-> R(2, 1)]

KeywordMinConfidence == R(5, 100)
KeywordMinScore == R(3, 2)
PrimaryDensityCap == 15
SecondaryDensityCap == 8

\* variant for C26: the loop over the patterns has no break
RECURSIVE AddOnFirstMatch_no_break(_, _, _)
AddOnFirstMatch_no_break(patterns, matches, weight) ==
    IF patterns = <<>> THEN Zero
    ELSE RAdd(IF Head(patterns) \in matches THEN weight ELSE Zero,
              AddOnFirstMatch_no_break(Tail(patterns), matches, weight))

\* for pattern in patterns: if pattern matches: score += weight; break
RECURSIVE AddOnFirstMatch(_, _, _)
AddOnFirstMatch(patterns, matches, weight) ==
    IF patterns = <<>> THEN Zero
    ELSE IF Head(patterns) \in matches THEN weight
    ELSE AddOnFirstMatch(Tail(patterns), matches, weight)

\* sum of body_lower.count(keyword) over the keywords contained in the body
RECURSIVE CountOccurrences(_, _)
CountOccurrences(keywords, count) ==
    IF keywords = {} THEN 0
    ELSE LET k == CHOOSE x \in keywords : TRUE
         IN count[k] + CountOccurrences(keywords \ {k}, count)

DensityScore(n, body_words, weight, cap) ==
    RMin(RMul(RMul(R(n, body_words), RInt(100)), weight), RInt(cap))

score_domain(email, profile) ==
    LET sf == SenderFacts(email.sender)
        sj == SubjectFacts(email.subject)
        bf == BodyFacts(email.body)
        s1 == AddOnFirstMatch(profile.sender_patterns, sf.matches,
                              KeywordWeights.sender_pattern)
        s2 == AddOnFirstMatch(profile.subject_patterns, sj.matches,
                              KeywordWeights.subject_pattern)
        s3 == RMul(RInt(Cardinality(profile.primary_keywords \cap sj.contains)),
                   KeywordWeights.subject_keyword)
        body_words == bf.words
        primary_count == CountOccurrences(profile.primary_keywords, bf.count)
        secondary_count == CountOccurrences(profile.secondary_keywords, bf.count)
        s4 == IF body_words > 0
              THEN RAdd(DensityScore(primary_count, body_words,
                                     KeywordWeights.primary_keyword, PrimaryDensityCap),
                        DensityScore(secondary_count, body_words,
                                     KeywordWeights.secondary_keyword, SecondaryDensityCap))
              ELSE Zero
    IN RAdd(RAdd(s1, s2), RAdd(s3, s4))

\* the raw (pre-normalization) scores dict of KeywordTaxonomyClassifier.classify
KeywordRawScores(domains, email) ==
    Dict([n \in Range(DomainNames(domains)) |->
            score_domain(email, ProfileOf(domains, n))])

\* normalized = {k: v / total} if total > 0 else scores
\* variant for C10: the raw scores are returned unscaled
DivideBy_unscaled(scores, total) == scores

DivideBy(scores, total) ==
    IF RGt(total, Zero)
    THEN Dict([k \in DOMAIN scores |-> RDiv(scores[k], total)])
    ELSE scores

Normalize(keys, scores) == DivideBy(scores, SumValues(keys, scores))

\* best match and minimum-threshold rejection
\* variant for C9: the keyword classifier checks the normalized score only
KeywordThreshold_relative_only(best_domain, best_score, confidence) ==
    IF RLt(confidence, KeywordMinConfidence)
    THEN <<None, Zero>>
    ELSE <<best_domain, confidence>>

KeywordThreshold(best_domain, best_score, confidence) ==
    IF RLt(confidence, KeywordMinConfidence) \/ RLt(best_score, KeywordMinScore)
    THEN <<None, Zero>>
    ELSE <<best_domain, confidence>>

KeywordBest(best_domain, scores, normalized) ==
    KeywordThreshold(best_domain, scores[best_domain], normalized[best_domain])

KeywordDecide(keys, scores, normalized) ==
    IF keys = <<>> THEN <<None, Zero>>
    ELSE KeywordBest(MaxKey(keys, scores), scores, normalized)

KeywordResult(d, normalized) ==
    ClassificationResult(d[1], d[2], normalized, "keyword_taxonomy")

KeywordFinish(keys, scores, normalized) ==
    KeywordResult(KeywordDecide(keys, scores, normalized), normalized)

KeywordScored(keys, scores) == KeywordFinish(keys, scores, Normalize(keys, scores))

KeywordClassify(domains, email) ==
    KeywordScored(DomainNames(domains), KeywordRawScores(domains, email))

(***************************************************************************)
(* Method 2: StructuralTemplateClassifier                                  *)
(***************************************************************************)
StructuralWeights ==
    [body_length |-> R(2, 1), greeting |-> R(3, 2), signature |-> R(3, 2),
     disclaimer |-> R(2, 1), url_match |-> R(5, 2), formality |-> R(2, 1),
     paragraph_count |-> R(3, 2), sender_structure |-> R(5, 2)]

StructuralMinConfidence == R(4, 100)
StructuralMinScore == R(2, 1)
Half == R(1, 2)
UrlPartial == R(3, 10)

analyze_sender_structure(sender) ==
    LET sf == SenderFacts(sender)
    IN [is_noreply |-> sf.noreply,
        has_department |-> sf.dept,
        domain_type |-> IF sf.gov THEN "government"
                        ELSE IF sf.edu THEN "education"
                        ELSE IF sf.com THEN "commercial"
                        ELSE "unknown"]

extract_features(email) ==
    LET bf == BodyFacts(email.body)
    IN [body_length |-> bf.length,
        has_greeting |-> bf.greeting,
        has_signature |-> bf.signature,
        has_disclaimer |-> bf.disclaimer,
        paragraph_count |-> bf.paragraphs,
        formality |-> IF bf.formal > bf.casual + 1 THEN "formal"
                      ELSE IF bf.casual > bf.formal + 1 THEN "casual"
                      ELSE "semi-formal",
        has_url |-> has_url(email),
        sender |-> analyze_sender_structure(email.sender)]

\* match / mismatch / partial tiers of body_length and paragraph_count
RangeScore(x, range, weight) ==
    LET lo == range[1]
        hi == range[2]
    IN IF lo <= x /\ x <= hi THEN weight
       ELSE IF RLt(RInt(x), RMul(RInt(lo), Half)) \/ x > hi * 2 THEN Zero
       ELSE RMul(weight, Half)

DisclaimerScore(features, profile) ==
    IF features.has_disclaimer = profile.has_disclaimer
    THEN StructuralWeights.disclaimer
    ELSE IF profile.has_disclaimer /\ features.has_disclaimer
    THEN StructuralWeights.disclaimer
    ELSE Zero

\* variant for C25: a mismatch of the url expectation earns nothing
UrlScore_no_partial(features, profile) ==
    IF features.has_url = profile.url_expected
    THEN StructuralWeights.url_match
    ELSE Zero

UrlScore(features, profile) ==
    IF features.has_url = profile.url_expected
    THEN StructuralWeights.url_match
    ELSE RMul(StructuralWeights.url_match, UrlPartial)

FormalityScore(features, profile) ==
    IF features.formality = profile.formality_level
    THEN StructuralWeights.formality
    ELSE IF features.formality = "semi-formal" \/ profile.formality_level = "semi-formal"
    THEN RMul(StructuralWeights.formality, Half)
    ELSE Zero

SenderStructureScore(features, profile) ==
    IF features.sender.domain_type = profile.name
    THEN StructuralWeights.sender_structure
    ELSE IF features.sender.is_noreply
            /\ profile.name \in {"technology", "retail", "logistics"}
    THEN RMul(StructuralWeights.sender_structure, Half)
    ELSE Zero

score_template_match(features, profile) ==
    SumSeq(<<RangeScore(features.body_length, profile.typical_body_length,
                        StructuralWeights.body_length),
             IF features.has_greeting = profile.has_greeting
             THEN StructuralWeights.greeting ELSE Zero,
             IF features.has_signature = profile.has_signature
             THEN StructuralWeights.signature ELSE Zero,
             DisclaimerScore(features, profile),
             UrlScore(features, profile),
             FormalityScore(features, profile),
             RangeScore(features.paragraph_count, profile.typical_paragraph_count,
                        StructuralWeights.paragraph_count),
             SenderStructureScore(features, profile)>>)

\* the raw scores dict of StructuralTemplateClassifier.classify
TemplateScores(domains, features) ==
    Dict([n \in Range(DomainNames(domains)) |->
            score_template_match(features, ProfileOf(domains, n))])

StructuralRawScores(domains, email) == TemplateScores(domains, extract_features(email))

StructuralThreshold(best_domain, best_score, confidence) ==
    IF RLt(confidence, StructuralMinConfidence) \/ RLt(best_score, StructuralMinScore)
    THEN <<None, Zero>>
    ELSE <<best_domain, confidence>>

StructuralBest(best_domain, scores, normalized) ==
    StructuralThreshold(best_domain, scores[best_domain], normalized[best_domain])

StructuralDecide(keys, scores, normalized) ==
    IF keys = <<>> THEN <<None, Zero>>
    ELSE StructuralBest(MaxKey(keys, scores), scores, normalized)

StructuralResult(d, normalized) ==
    ClassificationResult(d[1], d[2], normalized, "structural_template")

StructuralFinish(keys, scores, normalized) ==
    StructuralResult(StructuralDecide(keys, scores, normalized), normalized)

StructuralScored(keys, scores) == StructuralFinish(keys, scores, Normalize(keys, scores))

StructuralClassify(domains, email) ==
    StructuralScored(DomainNames(domains), StructuralRawScores(domains, email))

(***************************************************************************)
(* Weighted combination (EmailClassifier.classify and                      *)
(* HybridClassifier._fallback_classification)                              *)
(***************************************************************************)
DEFAULT_WEIGHT_METHOD_1 == R(6, 10)
DEFAULT_WEIGHT_METHOD_2 == R(4, 10)
GLOBAL_THRESHOLD == R(15, 100)
\* variant for C4: the fallback blend leaves the keyword classifier out
FallbackWeight1_none == R(0, 10)
FallbackWeight1 == R(6, 10)
FallbackWeight2 == R(4, 10)

AllNames == DefaultDomainNames \o ExtraDomainNames

HashSeeds == {"forward", "reverse"}

Reverse(s) == [i \in 1..Len(s) |-> s[Len(s) + 1 - i]]

\* Iteration order of a Python set of domain names.  It is fixed by the string
\* hashes of the process (hash_seed); two orders stand for the possible ones.
SetOrder(names, seed) ==
    LET base == IF seed = "forward" THEN AllNames ELSE Reverse(AllNames)
    IN SelectSeq(base, LAMBDA n : n \in names)

\* dict.get(domain, 0.0)
Get(scores, domain) == IF domain \in DOMAIN scores THEN scores[domain] ELSE Zero

\* combined_scores[domain] = score1 * w1 + score2 * w2 (+ score3 * w3)
WeightedSum(all_domains, r1, r2, r3, w1, w2, w3) ==
    Dict([d \in all_domains |->
            IF r3 # NoResult
            THEN RAdd(RAdd(RMul(Get(r1.scores, d), w1), RMul(Get(r2.scores, d), w2)),
                      RMul(Get(r3.scores, d), w3))
            ELSE RAdd(RMul(Get(r1.scores, d), w1), RMul(Get(r2.scores, d), w2))])

\* variant for C5: below the threshold no label is produced
ThresholdDecision_null(best_domain, best_score) ==
    IF RGe(best_score, GLOBAL_THRESHOLD)
    THEN [domain |-> best_domain, confidence |-> best_score, reason |-> None]
    ELSE [domain |-> None, confidence |-> best_score, reason |-> "below_threshold"]

\* variant for C12: a best score equal to the threshold is rejected
ThresholdDecision_strict(best_domain, best_score) ==
    IF RGt(best_score, GLOBAL_THRESHOLD)
    THEN [domain |-> best_domain, confidence |-> best_score, reason |-> None]
    ELSE [domain |-> "unsure", confidence |-> best_score, reason |-> "below_threshold"]

\* the global threshold applied to the best combined score
ThresholdDecision(best_domain, best_score) ==
    IF RGe(best_score, GLOBAL_THRESHOLD)
    THEN [domain |-> best_domain, confidence |-> best_score, reason |-> None]
    ELSE [domain |-> "unsure", confidence |-> best_score, reason |-> "below_threshold"]

BestCombined(best_domain, combined_scores) ==
    ThresholdDecision(best_domain, combined_scores[best_domain])

DecideCombined(order, combined_scores) ==
    IF order # <<>>
    THEN BestCombined(MaxKey(order, combined_scores), combined_scores)
    ELSE [domain |-> "unsure", confidence |-> Zero, reason |-> "no_scores"]

CombineOver(all_domains, r1, r2, r3, w1, w2, w3, seed) ==
    DecideCombined(SetOrder(all_domains, seed),
                   WeightedSum(all_domains, r1, r2, r3, w1, w2, w3))

\* EmailClassifier.classify, from "Calculate combined scores" on; result3 is
\* NoResult when the LLM is disabled or failed with an exception
CombinedDecision(r1, r2, r3, w1, w2, w3, seed) ==
    CombineOver(DOMAIN r1.scores \cup DOMAIN r2.scores
                    \cup (IF r3 # NoResult THEN DOMAIN r3.scores ELSE {}),
                r1, r2, r3, w1, w2, w3, seed)

\* EmailClassifier(domains).classify(email) with the LLM disabled
EmailClassifierClassify(doms, e, seed) ==
    CombinedDecision(KeywordClassify(doms, e), StructuralClassify(doms, e), NoResult,
                     DEFAULT_WEIGHT_METHOD_1, DEFAULT_WEIGHT_METHOD_2, Zero, seed)

\* HybridClassifier._fallback_classification
fallback_classification(r1, r2, seed) ==
    CombineOver(DOMAIN r1.scores \cup DOMAIN r2.scores, r1, r2, NoResult,
                FallbackWeight1, FallbackWeight2, Zero, seed).domain

(***************************************************************************)
(* Method 3: LLMClassifier                                                 *)
(***************************************************************************)
DomainClassification(domain, confidence) == [domain |-> domain, confidence |-> confidence]

\* what structured_llm.invoke may return: LLMClassificationResult objects
LLMOutputs ==
    { [classifications |-> <<DomainClassification("healthcare", R(8, 10))>>,
       primary_domain |-> "healthcare"],
      [classifications |-> <<DomainClassification("Banking", R(6, 10)),
                             DomainClassification("technology", R(9, 10))>>,
       primary_domain |-> "Banking"],
      [classifications |-> <<DomainClassification("astrology", R(9, 10))>>,
       primary_domain |-> "astrology"],
      [classifications |-> <<DomainClassification("unsure", R(9, 10)),
                             DomainClassification("finance", R(5, 10))>>,
       primary_domain |-> "unsure"] }

\* str.lower().strip() on the names the model may return
LowerStrip(domain) == IF domain = "Banking" THEN "banking" ELSE domain

normalize_domain_name(domain) ==
    CASE domain \in {"human_resources", "human resources", "humanresources"} -> "hr"
      [] domain \in {"telecom", "telco"} -> "telecommunications"
      [] domain \in {"social", "socialmedia"} -> "social_media"
      [] domain \in {"banking", "financial"} -> "finance"
      [] domain \in {"medical", "health"} -> "healthcare"
      [] domain \in {"gov", "govt"} -> "government"
      [] domain \in {"shopping", "ecommerce", "e-commerce"} -> "retail"
      [] domain \in {"shipping", "delivery"} -> "logistics"
      [] domain \in {"tech", "software"} -> "technology"
      [] domain \in {"school", "university", "college"} -> "education"
      [] OTHER -> domain

\* LLMClassifier._valid_domains
valid_domains == Range(DefaultDomainNames) \cup {"unsure"}

\* variant for C14: the classifications stay in the order the model gave them
SortByConfidence_unsorted(cs) == cs

\* list.sort(key=confidence, reverse=True): stable insertion by non-increasing
\* confidence
RECURSIVE SortByConfidence(_)
SortByConfidence(cs) ==
    IF cs = <<>> THEN <<>>
    ELSE LET rest == SortByConfidence(SubSeq(cs, 1, Len(cs) - 1))
             c == cs[Len(cs)]
             before == SelectSeq(rest, LAMBDA x : RGe(x.confidence, c.confidence))
             after == SelectSeq(rest, LAMBDA x : RLt(x.confidence, c.confidence))
         IN before \o <<c>> \o after

validate_result(result) ==
    LET renamed == [i \in 1..Len(result.classifications) |->
                        DomainClassification(
                            normalize_domain_name(LowerStrip(result.classifications[i].domain)),
                            RMax(Zero, RMin(RInt(1), result.classifications[i].confidence)))]
        valid == SelectSeq(renamed, LAMBDA c : c.domain \in valid_domains)
        nonempty == IF valid = <<>>
                    THEN <<DomainClassification("unsure", R(3, 10))>>
                    ELSE valid
        sorted == SortByConfidence(nonempty)
    IN [classifications |-> sorted, primary_domain |-> sorted[1].domain]

\* scores dict after "for classification in llm_result.classifications":
\* a later classification of the same domain overwrites an earlier one
RECURSIVE FillScores(_, _)
FillScores(scores, cs) ==
    IF cs = <<>> THEN scores
    ELSE FillScores(IF Head(cs).domain \in DOMAIN scores
                    THEN [scores EXCEPT ![Head(cs).domain] = Head(cs).confidence]
                    ELSE scores,
                    Tail(cs))

\* variant for C15: an "unsure" primary domain is passed on as the domain
convert_to_classification_result_unsure(result) ==
    ClassificationResult(result.primary_domain,
                         IF result.classifications = <<>> THEN Zero
                         ELSE result.classifications[1].confidence,
                         FillScores(Dict([n \in Range(DefaultDomainNames) |-> Zero]),
                                    result.classifications),
                         "llm_agent")

convert_to_classification_result(llm_result) ==
    LET scores == FillScores(Dict([n \in Range(DefaultDomainNames) |-> Zero]),
                             llm_result.classifications)
        domain == llm_result.primary_domain
        confidence == IF llm_result.classifications = <<>> THEN Zero
                      ELSE llm_result.classifications[1].confidence
    IN IF domain = "unsure"
       THEN ClassificationResult(None, Zero, scores, "llm_agent")
       ELSE ClassificationResult(domain, confidence, scores, "llm_agent")

create_fallback_result ==
    ClassificationResult(None, Zero, Dict([n \in Range(DefaultDomainNames) |-> Zero]),
                         "llm_agent")

(***************************************************************************)
(* The emails submitted to a classifier built on each taxonomy.            *)
(***************************************************************************)
Emails(doms) ==
    CASE doms = TaxSolo ->
            { Email("info@agency.gov", "Tax notice", "tax office notice", ""),
              Email("", "", "hey!! cool btw", "https://example.org/a"),
              Email("", "", "", "") }
      [] doms = Tax3 ->
            { Email("alerts@bank.com", "Your account statement is ready",
                    "bank statement letter", "https://bank.com/statement"),
              Email("noreply@updates.io", "Server software release",
                    "server update note", "https://example.org/a"),
              Email("info@agency.gov", "Tax notice", "tax office notice", ""),
              Email("alerts@bank.com", "Your account statement is ready",
                    "server update note", "https://example.org/a"),
              Email("noreply@updates.io", "Tax notice", "bank statement letter", ""),
              Email("", "", "long letter mentioning one transfer", ""),
              Email("", "", "hey!! cool btw", ""),
              Email("", "", "", "") }
      [] doms = Tax10 ->
            { Email("", "Account update", "hundred words greeting and one transfer",
                    "https://example.org/a"),
              Email("alerts@bank.com", "Your account statement is ready",
                    "bank statement letter", "https://bank.com/statement"),
              Email("info@agency.gov", "Account update", "tax office notice", ""),
              Email("", "", "", "") }
      [] OTHER ->
            { Email("", "Account update", "bank statement letter",
                    "https://example.org/a"),
              Email("noreply@updates.io", "Account update", "server update note", ""),
              Email("", "", "", "") }

(***************************************************************************)
(* State                                                                   *)
(***************************************************************************)
VARIABLES
    domains,        \* HybridClassifier.domains / EmailClassifier.domains
    hash_seed,      \* string-hash seed of the process (set iteration order)
    llm_classifier, \* HybridClassifier.llm_classifier: None or "LLMClassifier"
    retry_count,    \* LLMConfig.retry_count
    stats,          \* HybridClassifier.stats (HybridWorkflowStats)
    pc,             \* position of the classify call in progress, or "idle"
    op,             \* the operation of the last / current call
    email,          \* its argument
    result1,        \* local result1
    result2,        \* local result2
    result3,        \* local result3
    details,        \* local details: path, agreement, final_domain
    final_domain,   \* local final_domain
    attempt,        \* loop variable of LLMClassifier._invoke_llm
    invocations,    \* number of structured_llm.invoke calls of this call
    elapsed_ms,     \* local elapsed_ms of the semantic call
    llm_outcome,    \* how the semantic call of this call ended
    caught,         \* the exception handled at line 1008 of this call, if any
    outcome,        \* how the last call ended: "returned" or "raised"
    stats_before,   \* stats when the current / last classify call was entered
    calls_made,     \* HybridClassifier.classify calls since construction / reset
    classic_paths,  \* those among them that took the classic_only path
    budget,         \* HybridClassifier.classify calls the environment may still make
    memo,           \* results of the earlier direct calls of the two scorers
    decision,       \* what the score combiner returned: domain, confidence, reason
    llm_config,     \* an LLMConfig object: its weights, retry_count, construction
    weight_method,  \* EmailClassifier.weight_method_1, _2, _3
    raw_result,     \* what structured_llm.invoke returned
    llm_result,     \* what LLMClassifier._validate_result made of it
    emitted,        \* what the call in progress has shown its collaborators so far
    raised_by,      \* the collaborator whose exception ended the last call
    threads,        \* the threads calling classify on one HybridClassifier
    performed,      \* how often each counter increment of classify was executed
    submission,     \* how the callers submit: "sequential" or "concurrent"
    input_rows,     \* the rows of the input CSV, as csv.DictReader yields them
    processor,      \* StreamingProcessor: strict_validation, max_body_length, use_hybrid
    process_pc,     \* position of StreamingProcessor.process
    row_idx,        \* rows of the input the loop of process has consumed
    processing_stats, \* StreamingProcessor.stats (ProcessingStats)
    written,        \* rows written to the invalid, skipped and domain files
    classify_calls, \* classify_dict calls of this run: row index and path
    raised_rows,    \* indexes of the rows of this run whose handling raised
    runs_begun      \* process calls begun on this processor

vars == <<domains, hash_seed, llm_classifier, retry_count, stats, pc, op, email,
          result1, result2, result3, details, final_domain, attempt, invocations,
          elapsed_ms, llm_outcome, caught, outcome, stats_before, calls_made,
          classic_paths, budget, memo, decision,
          llm_config, weight_method, raw_result,
          llm_result, emitted, raised_by, threads, performed, submission,
          input_rows, processor, process_pc, row_idx, processing_stats, written,
          classify_calls, raised_rows, runs_begun>>

scorer_state == <<memo>>
combiner_state == <<decision>>
config_state == <<llm_config, weight_method>>
agent_state == <<raw_result, llm_result>>
thread_state == <<threads, performed, submission>>
processor_state == <<input_rows, processor, process_pc, row_idx, processing_stats,
                     written, classify_calls, raised_rows, runs_begun>>

\* what HybridClassifier and EmailClassifier never touch
aside == <<scorer_state, combiner_state, config_state, agent_state, thread_state,
           processor_state>>

NoDecision == [domain |-> None, confidence |-> Zero, reason |-> None]

ScorerIdle == memo = {}
CombinerIdle == decision = NoDecision

\* LLMConfig with its defaults (config.py lines 71-79), not yet through
\* __post_init__
LLMConfig(llm_weight, keyword_weight, structural_weight, retries) ==
    [llm_weight |-> llm_weight, keyword_weight |-> keyword_weight,
     structural_weight |-> structural_weight, retry_count |-> retries,
     state |-> "configured"]

\* EmailClassifier's weights before _update_weights has run
NoWeights == [method_1 |-> Zero, method_2 |-> Zero, method_3 |-> Zero]

NoLLMResult == [classifications |-> <<>>, primary_domain |-> None]

AgentIdle == raw_result = NoLLMResult /\ llm_result = NoLLMResult

ConfigIdle ==
    /\ llm_config = LLMConfig(R(40, 100), R(35, 100), R(25, 100), 2)
    /\ weight_method = NoWeights

config == <<domains, hash_seed, llm_classifier, retry_count>>
call == <<op, email, result1, result2, result3, details, final_domain, attempt,
          invocations, elapsed_ms, llm_outcome, caught, raised_by, outcome, stats_before>>

HybridWorkflowStats ==
    [llm_call_count |-> 0, llm_total_time_ms |-> 0,
     classic_agreement_count |-> 0, total_processed |-> 0]

NoDetails == [path |-> None, agreement |-> None, final_domain |-> None]

NoEmail == Email(None, None, None, None)

\* the two callers of one classifier object
Threads == {1, 2}

\* a thread that is not inside classify
IdleThread == [pc |-> "idle", email |-> NoEmail, loaded |-> 0, agree |-> FALSE]

ThreadsIdle ==
    /\ threads = [t \in Threads |-> IdleThread]
    /\ performed = HybridWorkflowStats
    /\ submission = "sequential"

\* ValidationStats()
ValidationStats ==
    [total_invalid |-> 0, invalid_sender_format |-> 0, invalid_receiver_format |-> 0,
     invalid_empty_sender |-> 0, invalid_empty_receiver |-> 0,
     invalid_empty_subject |-> 0, invalid_empty_body |-> 0]

\* SkippedStats()
SkippedStats == [total_skipped |-> 0, skipped_body_too_long |-> 0]

\* HybridWorkflowProcessingStats()
HybridWorkflowProcessingStats ==
    [llm_call_count |-> 0, llm_total_time_ms |-> 0, classic_agreement_count |-> 0,
     total_hybrid_processed |-> 0]

\* the labels an output file can be opened for
OutputLabels == Range(DefaultDomainNames) \cup {"unsure"}

\* ProcessingStats(); domain_counts is a defaultdict(int)
ProcessingStats ==
    [total_processed |-> 0, total_classified |-> 0, total_unsure |-> 0,
     domain_counts |-> [d \in OutputLabels |-> 0], errors |-> 0,
     validation_stats |-> ValidationStats, skipped_stats |-> SkippedStats,
     hybrid_workflow |-> HybridWorkflowProcessingStats]

NothingWritten == [invalid |-> <<>>, skipped |-> <<>>, output |-> <<>>]

\* StreamingProcessor() with its defaults, process not yet called
ProcessorIdle ==
    /\ input_rows = <<>>
    /\ processor = [strict_validation |-> FALSE, max_body_length |-> <<>>,
                    use_hybrid |-> FALSE]
    /\ process_pc = "idle"
    /\ row_idx = 0
    /\ processing_stats = ProcessingStats
    /\ written = NothingWritten
    /\ classify_calls = <<>>
    /\ raised_rows = {}
    /\ runs_begun = 0

Init ==
    /\ domains \in Taxonomies
    /\ hash_seed \in HashSeeds
    /\ \/ llm_classifier = None /\ retry_count = 0
       \/ llm_classifier = "LLMClassifier" /\ retry_count \in 0..MaxRetry
    /\ stats = HybridWorkflowStats
    /\ pc = "idle"
    /\ op = None
    /\ email = NoEmail
    /\ result1 = NoResult
    /\ result2 = NoResult
    /\ result3 = NoResult
    /\ details = NoDetails
    /\ final_domain = None
    /\ attempt = 0
    /\ invocations = 0
    /\ elapsed_ms = 0
    /\ llm_outcome = None
    /\ caught = None
    /\ raised_by = None
    /\ emitted = <<>>
    /\ outcome = None
    /\ stats_before = HybridWorkflowStats
    /\ calls_made = 0
    /\ classic_paths = 0
    /\ budget = MaxCalls
    /\ ScorerIdle
    /\ CombinerIdle
    /\ ConfigIdle
    /\ AgentIdle
    /\ ThreadsIdle
    /\ ProcessorIdle

(***************************************************************************)
(* HybridClassifier.classify, step by step                                 *)
(***************************************************************************)
(***************************************************************************)
(* What classify shows its collaborators: the status callback, the         *)
(* classifiers it runs and the workflow logger (both collaborators set)    *)
(***************************************************************************)
\* self._update_status(message, ...): the callback is called with the message
Status(message) ==
    [kind |-> "status", step |-> message, result |-> None, path |-> None]

\* self.method1.classify / self.method2.classify / self.llm_classifier.classify
Ran(method) ==
    [kind |-> "classify", step |-> method, result |-> None, path |-> None]

\* self.workflow_logger.log_step(email_idx, step, result=..., path=...)
Logged(step, result, path) ==
    [kind |-> "log_step", step |-> step, result |-> result, path |-> path]

\* variant for C16: the keyword classifier is run a second time for the log
KeywordEvents_twice(domain) ==
    <<Status("Classifying with Keyword Taxonomy..."), Ran("method1"), Ran("method1"),
      Logged("keyword_classify", domain, None)>>

\* lines 890-898
KeywordEvents(domain) ==
    <<Status("Classifying with Keyword Taxonomy..."), Ran("method1"),
      Logged("keyword_classify", domain, None)>>

\* lines 900-908
StructuralEvents(domain) ==
    <<Status("Classifying with Structural Template..."), Ran("method2"),
      Logged("structural_classify", domain, None)>>

\* lines 966-972
DisagreeEvents ==
    <<Status("Classifiers disagree - invoking LLM..."),
      Logged("agreement_check", None, "llm_assisted")>>

\* variant for C18: the semantic classifier is called without a notification
LLMCallEvents_silent == <<Ran("llm_classifier")>>

\* lines 977-980
LLMCallEvents ==
    <<Status("LLM called - waiting for response..."), Ran("llm_classifier")>>

\* lines 995-1006
LLMRespondedEvents(domain) ==
    <<Status("LLM responded"), Logged("llm_classify", domain, None)>>

\* variant for C17: the branch without a semantic classifier logs llm_classify too
BranchEvents_llm(at, domain) ==
    CASE at = "agree_notify" ->
            <<Status("Classifiers agree"), Logged("agreement_check", domain, "classic_only")>>
      [] at = "fallback_notify" ->
            <<Logged("agreement_check", domain, "llm_assisted"),
              Logged("llm_classify", domain, None)>>
      [] OTHER -> <<Logged("llm_classify", domain, None)>>

\* lines 939-948 (agreement), 957-964 (no semantic classifier), 1019-1026
\* (except branch)
BranchEvents(at, domain) ==
    CASE at = "agree_notify" ->
            <<Status("Classifiers agree"), Logged("agreement_check", domain, "classic_only")>>
      [] at = "fallback_notify" -> <<Logged("agreement_check", domain, "llm_assisted")>>
      [] OTHER -> <<Logged("llm_classify", domain, None)>>

\* lines 1028-1032
FinalEvents(domain, path) == <<Logged("final_result", domain, path)>>

\* what the step at a position shows when no collaborator raises
StepEvents(at) ==
    CASE at = "keyword" -> KeywordEvents(None)
      [] at = "structural" -> StructuralEvents(None)
      [] at = "disagree_notify" -> DisagreeEvents
      [] at = "final" -> FinalEvents(None, None)
      [] OTHER -> BranchEvents(at, None)

\* the collaborators a step calls: _update_status has no try/except (lines
\* 864-872), nor has log_step (lines 47-87)
RaiseSites(at) ==
    IF at \in {"fallback_notify", "except_log", "final"}
    THEN {"log_step"}
    ELSE {"status_callback", "log_step"}

\* what a step has shown when the collaborator who raises: the status callback
\* is the first it calls, log_step the last, and a record whose writing fails
\* is not written
Interrupted(events, who) ==
    IF who = "status_callback" THEN <<events[1]>>
    ELSE SubSeq(events, 1, Len(events) - 1)

\* variant for C20: the time total survives a reset
reset_stats_keeps_time(st) ==
    [HybridWorkflowStats EXCEPT !.llm_total_time_ms = st.llm_total_time_ms]

\* HybridClassifier.reset_stats: self.stats = HybridWorkflowStats()
reset_stats(st) == HybridWorkflowStats

\* line 888: self.stats.total_processed += 1
CountProcessed(st) == [st EXCEPT !.total_processed = @ + 1]

\* variant for C6: an agreement is not counted
CountAgreement_skipped(st) == st

\* line 935: self.stats.classic_agreement_count += 1
CountAgreement(st) == [st EXCEPT !.classic_agreement_count = @ + 1]

\* lines 983-984
CountLLMCall(st, ms) ==
    [st EXCEPT !.llm_call_count = @ + 1, !.llm_total_time_ms = @ + ms]

\* variant for C1: two different non-null domains count as an agreement
classifiers_agree_on_different(r1, r2) ==
    r1.domain # None /\ r2.domain # None /\ r1.domain # r2.domain

\* lines 926-930
classifiers_agree(r1, r2) ==
    r1.domain # None /\ r2.domain # None /\ r1.domain = r2.domain

\* variant for C3: a null semantic domain is passed on as it is
DomainOrNull(r3) == r3.domain

\* result3.domain or "unsure"
DomainOrUnsure(r3) == IF r3.domain = None THEN "unsure" ELSE r3.domain

BeginClassify(e) ==
    /\ pc = "idle"
    /\ budget > 0
    /\ budget' = budget - 1
    /\ op' = "HybridClassifier.classify"
    /\ email' = e
    /\ stats_before' = stats
    /\ stats' = CountProcessed(stats)
    /\ calls_made' = calls_made + 1
    /\ result1' = NoResult /\ result2' = NoResult /\ result3' = NoResult
    /\ details' = NoDetails
    /\ final_domain' = None
    /\ attempt' = 0 /\ invocations' = 0 /\ elapsed_ms' = 0
    /\ llm_outcome' = None
    /\ caught' = None
    /\ raised_by' = None
    /\ emitted' = <<>>
    /\ outcome' = None
    /\ pc' = "keyword"
    /\ UNCHANGED <<config, aside, classic_paths>>

\* lines 890-898: status callback, method1.classify, log_step
KeywordStep ==
    /\ pc = "keyword"
    /\ result1' = KeywordClassify(domains, email)
    /\ pc' = "structural"
    /\ emitted' = emitted \o KeywordEvents(result1'.domain)
    /\ UNCHANGED <<config, aside, stats, op, email, result2, result3, details, final_domain,
                   attempt, invocations, elapsed_ms, llm_outcome, caught, raised_by, outcome,
                   stats_before, calls_made, classic_paths, budget>>

\* lines 900-908: status callback, method2.classify, log_step
StructuralStep ==
    /\ pc = "structural"
    /\ result2' = StructuralClassify(domains, email)
    /\ pc' = "agreement"
    /\ emitted' = emitted \o StructuralEvents(result2'.domain)
    /\ UNCHANGED <<config, aside, stats, op, email, result1, result3, details, final_domain,
                   attempt, invocations, elapsed_ms, llm_outcome, caught, raised_by, outcome,
                   stats_before, calls_made, classic_paths, budget>>

\* lines 925-956: the agreement decision, up to the first notification of the
\* branch taken
AgreementCheck ==
    /\ pc = "agreement"
    /\ IF classifiers_agree(result1, result2)
       THEN /\ final_domain' = result1.domain
            /\ stats' = CountAgreement(stats)
            /\ classic_paths' = classic_paths + 1
            /\ details' = [details EXCEPT !.path = "classic_only", !.agreement = TRUE]
            /\ pc' = "agree_notify"
       ELSE /\ details' = [details EXCEPT !.path = "llm_assisted", !.agreement = FALSE]
            /\ UNCHANGED <<stats, classic_paths>>
            /\ IF llm_classifier = None
               THEN /\ final_domain' = fallback_classification(result1, result2, hash_seed)
                    /\ pc' = "fallback_notify"
               ELSE /\ UNCHANGED final_domain
                    /\ pc' = "disagree_notify"
    /\ UNCHANGED <<config, aside, op, email, result1, result2, result3, attempt, invocations,
                   elapsed_ms, llm_outcome, caught, raised_by, emitted, outcome, stats_before, calls_made,
                   budget>>

\* lines 939-948 (agreement), 957-964 (no LLM), 1019-1026 (except branch):
\* the notifications of a branch whose final_domain is set
BranchNotified ==
    /\ pc \in {"agree_notify", "fallback_notify", "except_log"}
    /\ pc' = "final"
    /\ emitted' = emitted \o BranchEvents(pc, final_domain)
    /\ UNCHANGED <<config, aside, stats, call, calls_made, classic_paths, budget>>

\* lines 966-975: status callback, log_step, start_time
DisagreeNotified ==
    /\ pc = "disagree_notify"
    /\ pc' = "llm_status"
    /\ emitted' = emitted \o DisagreeEvents
    /\ UNCHANGED <<config, aside, stats, call, calls_made, classic_paths, budget>>

\* lines 977-980: status callback inside the try block, then
\* self.llm_classifier.classify(email) is entered
LLMCalled ==
    /\ pc = "llm_status"
    /\ pc' = "llm_invoke"
    /\ attempt' = 0
    /\ emitted' = emitted \o LLMCallEvents
    /\ UNCHANGED <<config, aside, stats, op, email, result1, result2, result3, details,
                   final_domain, invocations, elapsed_ms, llm_outcome, caught, raised_by, outcome,
                   stats_before, calls_made, classic_paths, budget>>

(***************************************************************************)
(* LLMClassifier.classify / _invoke_llm, entered from line 980             *)
(***************************************************************************)
\* variant for C8: one retry more than configured
ShouldRetry_inclusive(a, rc) == a <= rc

\* agent.py line 110: if attempt < self.config.retry_count: continue
ShouldRetry(a, rc) == a < rc

\* _get_structured_llm() raises before the loop (provider missing, bad
\* credentials): LLMClassifier.classify absorbs it into the fallback result
LLMSetupFails ==
    /\ pc = "llm_invoke"
    /\ invocations = 0
    /\ result3' = create_fallback_result
    /\ llm_outcome' = "setup_failed"
    /\ pc' = "llm_returned"
    /\ UNCHANGED <<config, aside, stats, op, email, result1, result2, details, final_domain,
                   attempt, invocations, elapsed_ms, caught, raised_by, emitted, outcome, stats_before,
                   calls_made, classic_paths, budget>>

\* one loop iteration whose structured_llm.invoke (or _validate_result) raises:
\* timeout, transport error, malformed output
InvokeFails ==
    /\ pc = "llm_invoke"
    /\ invocations' = invocations + 1
    /\ IF ShouldRetry(attempt, retry_count)
       THEN /\ attempt' = attempt + 1
            /\ UNCHANGED <<pc, result3, llm_outcome>>
       ELSE \* raise; caught by LLMClassifier.classify (agent.py lines 71-73)
            /\ result3' = create_fallback_result
            /\ llm_outcome' = "failed"
            /\ pc' = "llm_returned"
            /\ UNCHANGED attempt
    /\ UNCHANGED <<config, aside, stats, op, email, result1, result2, details, final_domain,
                   elapsed_ms, caught, raised_by, emitted, outcome, stats_before, calls_made, classic_paths,
                   budget>>

\* one loop iteration that returns a validated result
InvokeSucceeds(out) ==
    /\ pc = "llm_invoke"
    /\ invocations' = invocations + 1
    /\ result3' = convert_to_classification_result(validate_result(out))
    /\ llm_outcome' = "success"
    /\ pc' = "llm_returned"
    /\ UNCHANGED <<config, aside, stats, op, email, result1, result2, details, final_domain,
                   attempt, elapsed_ms, caught, raised_by, emitted, outcome, stats_before, calls_made,
                   classic_paths, budget>>

(***************************************************************************)
(* HybridClassifier.classify, after the semantic call                      *)
(***************************************************************************)
\* int((time.time() - start_time) * 1000) of a call that took no measurable
\* time, and of one that took some
ElapsedTimes == {0, 1}

\* lines 981-993: llm_classifier.classify returned result3
LLMReturned(ms) ==
    /\ pc = "llm_returned"
    /\ elapsed_ms' = ms
    /\ stats' = CountLLMCall(stats, ms)
    /\ final_domain' = DomainOrUnsure(result3)
    /\ pc' = "llm_post"
    /\ UNCHANGED <<config, aside, op, email, result1, result2, result3, details, attempt,
                   invocations, llm_outcome, caught, raised_by, emitted, outcome, stats_before, calls_made,
                   classic_paths, budget>>

\* lines 995-1006: status callback and log_step after the semantic call
LLMNotified ==
    /\ pc = "llm_post"
    /\ pc' = "final"
    /\ emitted' = emitted \o LLMRespondedEvents(final_domain)
    /\ UNCHANGED <<config, aside, stats, call, calls_made, classic_paths, budget>>

\* lines 1008-1018: an exception raised inside the try block (by the status
\* callback of line 977 or 995, or by log_step of line 1000) is handled as a
\* failure of the semantic call
TryBlockRaises ==
    /\ pc \in {"llm_status", "llm_post"}
    /\ final_domain' = fallback_classification(result1, result2, hash_seed)
    /\ caught' = "Exception"
    /\ pc' = "except_log"
    /\ emitted' = emitted \o (IF pc = "llm_status" THEN Interrupted(LLMCallEvents, "status_callback")
                             ELSE Interrupted(LLMRespondedEvents(None), "status_callback"))
    /\ UNCHANGED raised_by
    /\ UNCHANGED <<config, aside, stats, op, email, result1, result2, result3, details,
                   attempt, invocations, elapsed_ms, llm_outcome, outcome,
                   stats_before, calls_made, classic_paths, budget>>

\* lines 1028-1035: log_step("final_result"), details["final_domain"], return
Return ==
    /\ pc = "final"
    /\ details' = [details EXCEPT !.final_domain = final_domain]
    /\ outcome' = "returned"
    /\ pc' = "idle"
    /\ emitted' = emitted \o FinalEvents(final_domain, details.path)
    /\ UNCHANGED <<config, aside, stats, op, email, result1, result2, result3, final_domain,
                   attempt, invocations, elapsed_ms, llm_outcome, caught, raised_by, stats_before,
                   calls_made, classic_paths, budget>>

\* an exception leaves classify: the locals of the call are gone, the object
\* and its stats stay as they are
Abandon ==
    /\ outcome' = "raised"
    /\ pc' = "idle"
    /\ result1' = NoResult /\ result2' = NoResult /\ result3' = NoResult
    /\ details' = NoDetails
    /\ final_domain' = None
    /\ attempt' = 0 /\ invocations' = 0 /\ elapsed_ms' = 0
    /\ llm_outcome' = None
    /\ caught' = None
    /\ UNCHANGED <<config, aside, stats, op, email, stats_before, calls_made, classic_paths,
                   budget>>

\* the status callback or the workflow logger raises outside the try block
\* (lines 891-908, 939-972, 1019-1032): the exception leaves classify
CollaboratorRaises ==
    /\ pc \in {"keyword", "structural", "agree_notify", "fallback_notify",
               "disagree_notify", "except_log", "final"}
    /\ \E who \in RaiseSites(pc) :
        /\ raised_by' = who
        /\ emitted' = emitted \o Interrupted(StepEvents(pc), who)
    /\ Abandon

\* the host interrupts the process during the semantic call: KeyboardInterrupt
\* is no Exception, so neither agent.py line 71 nor classifier.py line 1008
\* catches it
HostInterrupt ==
    /\ pc = "llm_invoke"
    /\ raised_by' = "KeyboardInterrupt"
    /\ UNCHANGED emitted
    /\ Abandon

\* HybridClassifier.reset_stats
ResetStats ==
    /\ pc = "idle"
    /\ stats' = reset_stats(stats)
    /\ calls_made' = 0
    /\ classic_paths' = 0
    /\ op' = "HybridClassifier.reset_stats"
    /\ email' = NoEmail
    /\ result1' = NoResult /\ result2' = NoResult /\ result3' = NoResult
    /\ details' = NoDetails
    /\ final_domain' = None
    /\ attempt' = 0 /\ invocations' = 0 /\ elapsed_ms' = 0
    /\ llm_outcome' = None
    /\ caught' = None
    /\ raised_by' = None
    /\ emitted' = <<>>
    /\ outcome' = "returned"
    /\ stats_before' = HybridWorkflowStats
    /\ UNCHANGED <<config, aside, pc, budget>>

(***************************************************************************)
(* EmailClassifier.classify (LLM disabled: method3 is None)                *)
(***************************************************************************)
EmailClassify(e) ==
    /\ pc = "idle"
    /\ budget > 0
    /\ op' = "EmailClassifier.classify"
    /\ email' = e
    /\ result1' = KeywordClassify(domains, e)
    /\ result2' = StructuralClassify(domains, e)
    /\ result3' = NoResult
    /\ final_domain' = CombinedDecision(result1', result2', NoResult,
                                        DEFAULT_WEIGHT_METHOD_1, DEFAULT_WEIGHT_METHOD_2,
                                        Zero, hash_seed).domain
    /\ details' = [NoDetails EXCEPT !.final_domain = final_domain']
    /\ attempt' = 0 /\ invocations' = 0 /\ elapsed_ms' = 0
    /\ llm_outcome' = None
    /\ caught' = None
    /\ raised_by' = None
    /\ emitted' = <<>>
    /\ outcome' = "returned"
    /\ stats_before' = stats
    /\ UNCHANGED <<config, aside, stats, pc, calls_made, classic_paths, budget>>

Next ==
    \/ \E e \in Emails(domains) : BeginClassify(e)
    \/ KeywordStep
    \/ StructuralStep
    \/ AgreementCheck
    \/ BranchNotified
    \/ DisagreeNotified
    \/ LLMCalled
    \/ LLMSetupFails
    \/ InvokeFails
    \/ \E out \in LLMOutputs : InvokeSucceeds(out)
    \/ \E ms \in ElapsedTimes : LLMReturned(ms)
    \/ LLMNotified
    \/ TryBlockRaises
    \/ Return
    \/ CollaboratorRaises
    \/ HostInterrupt
    \/ ResetStats
    \/ \E e \in Emails(domains) : EmailClassify(e)

Spec == Init /\ [][Next]_vars

(***************************************************************************)
(* The two scorers called directly, one call after another, on one         *)
(* classifier object each                                                  *)
(***************************************************************************)
\* the state of a process in which no HybridClassifier.classify call has begun
NoCallYet ==
    /\ stats = HybridWorkflowStats
    /\ pc = "idle"
    /\ result3 = NoResult
    /\ details = NoDetails
    /\ final_domain = None
    /\ attempt = 0
    /\ invocations = 0
    /\ elapsed_ms = 0
    /\ llm_outcome = None
    /\ caught = None
    /\ raised_by = None
    /\ emitted = <<>>
    /\ outcome = None
    /\ stats_before = HybridWorkflowStats
    /\ calls_made = 0
    /\ classic_paths = 0

hybrid_call == <<stats, pc, result3, details, final_domain, attempt, invocations,
                 elapsed_ms, llm_outcome, caught, raised_by, emitted, outcome, stats_before, calls_made,
                 classic_paths>>

ScorerInit ==
    /\ domains \in Taxonomies
    /\ hash_seed = "forward"
    /\ llm_classifier = None
    /\ retry_count = 0
    /\ NoCallYet
    /\ op = None
    /\ email = NoEmail
    /\ result1 = NoResult
    /\ result2 = NoResult
    /\ budget = MaxScorings
    /\ memo = {}
    /\ CombinerIdle
    /\ ConfigIdle
    /\ AgentIdle
    /\ ThreadsIdle
    /\ ProcessorIdle

\* variant for C11: a classifier that has answered before answers with
\* confidence zero
KeywordTaxonomyClassifier_classify_warm(e) ==
    IF budget < MaxScorings
    THEN [KeywordClassify(domains, e) EXCEPT !.confidence = Zero]
    ELSE KeywordClassify(domains, e)

\* KeywordTaxonomyClassifier.classify(email) on the object built from domains:
\* it reads self.domains and the patterns compiled from it, and assigns to
\* locals only
KeywordTaxonomyClassifier_classify(e) == KeywordClassify(domains, e)

\* StructuralTemplateClassifier.classify(email), likewise
StructuralTemplateClassifier_classify(e) == StructuralClassify(domains, e)

\* the first answer of a scorer to an email is kept, with the ordinal of the call
Remember(m, method, e, result, ordinal) ==
    IF \E r \in m : r.method = method /\ r.email = e
    THEN m
    ELSE m \cup {[method |-> method, email |-> e, result |-> result, at |-> ordinal]}

ScoreKeyword(e) ==
    /\ budget > 0
    /\ budget' = budget - 1
    /\ op' = "KeywordTaxonomyClassifier.classify"
    /\ email' = e
    /\ result1' = KeywordTaxonomyClassifier_classify(e)
    /\ memo' = Remember(memo, "keyword", e, result1', MaxScorings - budget')
    /\ UNCHANGED <<config, hybrid_call, thread_state, processor_state, result2, combiner_state, config_state,
                   agent_state>>

ScoreStructural(e) ==
    /\ budget > 0
    /\ budget' = budget - 1
    /\ op' = "StructuralTemplateClassifier.classify"
    /\ email' = e
    /\ result2' = StructuralTemplateClassifier_classify(e)
    /\ memo' = Remember(memo, "structural", e, result2', MaxScorings - budget')
    /\ UNCHANGED <<config, hybrid_call, thread_state, processor_state, result1, combiner_state, config_state,
                   agent_state>>

ScorerNext ==
    \/ \E e \in Emails(domains) : ScoreKeyword(e)
    \/ \E e \in Emails(domains) : ScoreStructural(e)

ScorerSpec == ScorerInit /\ [][ScorerNext]_vars

(***************************************************************************)
(* The score combiner applied to the score vectors of two scorers          *)
(***************************************************************************)
\* a taxonomy of four domains
Tax4 == [i \in 1..4 |-> Tax10[i]]

SumOf4(f, names) == f[names[1]] + f[names[2]] + f[names[3]] + f[names[4]]

\* the normalized score vectors whose entries are multiples of 1/ScoreSteps and
\* at least least/ScoreSteps
Vectors(names, least) ==
    { Dict([n \in Range(names) |-> R(f[n], ScoreSteps)]) :
        f \in { g \in [Range(names) -> least..ScoreSteps] : SumOf4(g, names) = ScoreSteps } }

\* a keyword score vector sums to one, or is all zero when nothing matched
KeywordVectors(names) ==
    Vectors(names, 0) \cup { Dict([n \in Range(names) |-> Zero]) }

\* a structural score vector sums to one and has no zero entry: every domain
\* gets at least the partial credit of the url rule
StructuralVectors(names) == Vectors(names, 1)

\* the result a scorer returns with this score vector
VectorResult(names, scores, method) ==
    IF \A n \in Range(names) : scores[n] = Zero
    THEN ClassificationResult(None, Zero, scores, method)
    ELSE ClassificationResult(MaxKey(names, scores), scores[MaxKey(names, scores)],
                              scores, method)

CombinerInit ==
    /\ domains = Tax4
    /\ hash_seed \in HashSeeds
    /\ llm_classifier = None
    /\ retry_count = 0
    /\ NoCallYet
    /\ op = None
    /\ email = NoEmail
    /\ \E k \in KeywordVectors(DomainNames(domains)) :
        result1 = VectorResult(DomainNames(domains), k, "keyword_taxonomy")
    /\ \E t \in StructuralVectors(DomainNames(domains)) :
        result2 = VectorResult(DomainNames(domains), t, "structural_template")
    /\ budget = 1
    /\ ScorerIdle
    /\ decision = NoDecision
    /\ ConfigIdle
    /\ AgentIdle
    /\ ThreadsIdle
    /\ ProcessorIdle

\* EmailClassifier.classify from "Calculate combined scores" on (LLM disabled)
Combine ==
    /\ budget > 0
    /\ budget' = budget - 1
    /\ op' = "EmailClassifier.classify"
    /\ decision' = CombinedDecision(result1, result2, NoResult, DEFAULT_WEIGHT_METHOD_1,
                                    DEFAULT_WEIGHT_METHOD_2, Zero, hash_seed)
    /\ UNCHANGED <<config, hybrid_call, thread_state, processor_state, email, result1, result2, scorer_state,
                   config_state, agent_state>>

\* HybridClassifier._fallback_classification(result1, result2, details)
FallbackCombine ==
    /\ budget > 0
    /\ budget' = budget - 1
    /\ op' = "HybridClassifier._fallback_classification"
    /\ decision' = CombineOver(DOMAIN result1.scores \cup DOMAIN result2.scores,
                               result1, result2, NoResult,
                               FallbackWeight1, FallbackWeight2, Zero, hash_seed)
    /\ UNCHANGED <<config, hybrid_call, thread_state, processor_state, email, result1, result2, scorer_state,
                   config_state, agent_state>>

\* EmailClassifier.classify with the semantic classifier enabled, on an email
\* for which it fails: the weights are those _update_weights copied from the
\* LLMConfig; result3 is the fallback result LLMClassifier.classify returns for
\* its own failures, or None when method3.classify raised (lines 716-721)
CombineSemanticFailed ==
    /\ budget > 0
    /\ budget' = budget - 1
    /\ op' = "EmailClassifier.classify, semantic classifier failed"
    /\ \E r3 \in {create_fallback_result, NoResult} :
        decision' = CombinedDecision(result1, result2, r3, llm_config.keyword_weight,
                                     llm_config.structural_weight,
                                     llm_config.llm_weight, hash_seed)
    /\ UNCHANGED <<config, hybrid_call, thread_state, processor_state, email, result1, result2, scorer_state,
                   config_state, agent_state>>

CombinerNext == Combine \/ FallbackCombine \/ CombineSemanticFailed

CombinerSpec == CombinerInit /\ [][CombinerNext]_vars

(***************************************************************************)
(* LLMConfig construction and EmailClassifier._update_weights              *)
(***************************************************************************)
\* weights a configuration may name (LLM_WEIGHT, KEYWORD_WEIGHT,
\* STRUCTURAL_WEIGHT are parsed as floats)
WeightValues ==
    {Zero, R(25, 100), R(251, 1000), R(35, 100), R(40, 100), R(1, 2), RInt(1), RInt(2)}

RetryValues == {-1, 0, 2}

Tolerance == R(1, 1000)

\* abs(total - 1.0) > 0.001
Deviates(total) ==
    RGt(total, RAdd(RInt(1), Tolerance)) \/ RLt(RAdd(total, Tolerance), RInt(1))

WeightTotal(c) == RAdd(RAdd(c.llm_weight, c.keyword_weight), c.structural_weight)

\* LLMConfig._normalize_weights
normalize_weights(c) ==
    IF RGt(WeightTotal(c), Zero) /\ Deviates(WeightTotal(c))
    THEN [c EXCEPT !.llm_weight = RDiv(@, WeightTotal(c)),
                   !.keyword_weight = RDiv(@, WeightTotal(c)),
                   !.structural_weight = RDiv(@, WeightTotal(c))]
    ELSE c

\* LLMConfig._validate for a local provider with valid temperature, max_tokens
\* and timeout: only retry_count can be refused
validate(c) ==
    IF c.retry_count < 0
    THEN [c EXCEPT !.state = "LLMConfigError"]
    ELSE [c EXCEPT !.state = "constructed"]

ConfigInit ==
    /\ domains = Tax4
    /\ hash_seed = "forward"
    /\ llm_classifier = None
    /\ retry_count = 0
    /\ NoCallYet
    /\ op = None
    /\ email = NoEmail
    /\ result1 = NoResult
    /\ result2 = NoResult
    /\ budget = 0
    /\ ScorerIdle
    /\ CombinerIdle
    /\ \E l \in WeightValues, k \in WeightValues, t \in WeightValues, r \in RetryValues :
        llm_config = LLMConfig(l, k, t, r)
    /\ weight_method = NoWeights
    /\ AgentIdle
    /\ ThreadsIdle
    /\ ProcessorIdle

\* LLMConfig.__post_init__
PostInit ==
    /\ llm_config.state = "configured"
    /\ llm_config' = validate(normalize_weights(llm_config))
    /\ UNCHANGED <<config, hybrid_call, thread_state, processor_state, op, email, result1, result2, budget,
                   scorer_state, combiner_state, weight_method, agent_state>>

\* EmailClassifier._update_weights, with the LLM classifier initialized
UpdateWeights ==
    /\ llm_config.state = "constructed"
    /\ weight_method = NoWeights
    /\ weight_method' = [method_1 |-> llm_config.keyword_weight,
                         method_2 |-> llm_config.structural_weight,
                         method_3 |-> llm_config.llm_weight]
    /\ UNCHANGED <<config, hybrid_call, thread_state, processor_state, op, email, result1, result2, budget,
                   scorer_state, combiner_state, llm_config, agent_state>>

ConfigNext == PostInit \/ UpdateWeights

ConfigSpec == ConfigInit /\ [][ConfigNext]_vars

(***************************************************************************)
(* LLMClassifier: from the output of structured_llm.invoke to the          *)
(* ClassificationResult                                                    *)
(***************************************************************************)
\* domain names and confidences the model may answer with (confidence is
\* bounded by the schema to 0.0..1.0)
AnsweredNames == {"healthcare", "Banking", "finance", "astrology", "unsure", "technology"}

AnsweredConfidences == {R(4, 10), R(7, 10), R(9, 10)}

AnsweredClassifications ==
    { DomainClassification(n, c) : n \in AnsweredNames, c \in AnsweredConfidences }

SeqsUpTo(S, n) == UNION { [1..k -> S] : k \in 0..n }

\* LLMClassificationResult objects with up to MaxClassifications classifications
RawOutputs ==
    { [classifications |-> cs,
       primary_domain |-> IF cs = <<>> THEN "unsure" ELSE cs[1].domain] :
        cs \in SeqsUpTo(AnsweredClassifications, MaxClassifications) }

AgentInit ==
    /\ domains = Tax10
    /\ hash_seed = "forward"
    /\ llm_classifier = "LLMClassifier"
    /\ retry_count = 0
    /\ NoCallYet
    /\ op = None
    /\ email = NoEmail
    /\ result1 = NoResult
    /\ result2 = NoResult
    /\ budget = 0
    /\ ScorerIdle
    /\ CombinerIdle
    /\ ConfigIdle
    /\ raw_result \in RawOutputs
    /\ llm_result = NoLLMResult
    /\ ThreadsIdle
    /\ ProcessorIdle

\* agent.py line 104: return self._validate_result(result)
ValidateResult ==
    /\ op = None
    /\ op' = "LLMClassifier._validate_result"
    /\ llm_result' = validate_result(raw_result)
    /\ UNCHANGED <<config, thread_state, processor_state, stats, pc, email, result1, result2, result3, details,
                   final_domain, attempt, invocations, elapsed_ms, llm_outcome, caught, raised_by, emitted,
                   outcome, stats_before, calls_made, classic_paths, budget,
                   scorer_state, combiner_state, config_state, raw_result>>

\* agent.py line 68: return self._convert_to_classification_result(llm_result)
ConvertResult ==
    /\ op = "LLMClassifier._validate_result"
    /\ op' = "LLMClassifier._convert_to_classification_result"
    /\ result3' = convert_to_classification_result(llm_result)
    /\ UNCHANGED <<config, thread_state, processor_state, stats, pc, email, result1, result2, details,
                   final_domain, attempt, invocations, elapsed_ms, llm_outcome, caught, raised_by, emitted,
                   outcome, stats_before, calls_made, classic_paths, budget,
                   scorer_state, combiner_state, config_state, agent_state>>

\* agent.py lines 71-73: structured_llm.invoke raised instead
CreateFallbackResult ==
    /\ op = None
    /\ op' = "LLMClassifier._create_fallback_result"
    /\ result3' = create_fallback_result
    /\ UNCHANGED <<config, thread_state, processor_state, stats, pc, email, result1, result2, details,
                   final_domain, attempt, invocations, elapsed_ms, llm_outcome, caught, raised_by, emitted,
                   outcome, stats_before, calls_made, classic_paths, budget,
                   scorer_state, combiner_state, config_state, agent_state>>

AgentNext == ValidateResult \/ ConvertResult \/ CreateFallbackResult

AgentSpec == AgentInit /\ [][AgentNext]_vars

(***************************************************************************)
(* StreamingProcessor.process over the rows of one input file, with the    *)
(* classifier built on the three-domain taxonomy and no progress callback  *)
(***************************************************************************)
\* a row of the input CSV, with the columns sender, receiver, subject, body
\* and has_url
Row(sender, receiver, subject, body, url) ==
    [sender |-> sender, receiver |-> receiver, subject |-> subject, body |-> body,
     has_url |-> url]

RowKinds ==
    { Row("alerts@bank.com", "John <john@example.com>",
          "Your account statement is ready", "bank statement letter", "true"),
      Row("info@agency.gov", "user@test.com", "Account update", "hey!! cool btw", "1"),
      Row("not-an-address", "user@", "", "bank statement letter", "false"),
      Row("", "", "Tax notice", "", "") }

\* max_body_length: None (the empty tuple) or the length of "hey!! cool btw"
MaxBodyLengths == {<<>>, <<14>>}

ProcessorConfigs ==
    [strict_validation : BOOLEAN, max_body_length : MaxBodyLengths,
     use_hybrid : BOOLEAN]

\* EmailValidator.validate_email_format: EMAIL_PATTERN or EMAIL_WITH_NAME_PATTERN
\* matches the stripped address
validate_email_format(address) ==
    address \in {"alerts@bank.com", "noreply@updates.io", "info@agency.gov",
                 "user@test.com", "John <john@example.com>"}

AddressErrors(address, empty, invalid) ==
    IF address = "" THEN <<empty>>
    ELSE IF ~validate_email_format(address) THEN <<invalid>>
    ELSE <<>>

\* EmailValidator.validate: the list of errors, in the order they are appended
EmailValidator_validate(row) ==
    AddressErrors(row.sender, "empty_sender", "invalid_sender_format")
        \o AddressErrors(row.receiver, "empty_receiver", "invalid_receiver_format")
        \o (IF row.subject = "" THEN <<"empty_subject">> ELSE <<>>)
        \o (IF row.body = "" THEN <<"empty_body">> ELSE <<>>)

\* the counter of ValidationStats that lines 461-472 increment for an error
ErrorCounter(error) ==
    CASE error = "invalid_sender_format" -> "invalid_sender_format"
      [] error = "invalid_receiver_format" -> "invalid_receiver_format"
      [] error = "empty_sender" -> "invalid_empty_sender"
      [] error = "empty_receiver" -> "invalid_empty_receiver"
      [] error = "empty_subject" -> "invalid_empty_subject"
      [] error = "empty_body" -> "invalid_empty_body"

RECURSIVE CountErrors(_, _)
CountErrors(vs, errors) ==
    IF errors = <<>> THEN vs
    ELSE CountErrors([vs EXCEPT ![ErrorCounter(Head(errors))] = @ + 1], Tail(errors))

\* lines 460-474
CountInvalid(ps, errors) ==
    [ps EXCEPT !.validation_stats =
        [CountErrors(@, errors) EXCEPT !.total_invalid = @ + 1]]

\* variant for C21: a body of exactly max_body_length is skipped as well
BodyTooLong_inclusive(row) ==
    /\ processor.max_body_length # <<>>
    /\ BodyFacts(row.body).length >= processor.max_body_length[1]

\* lines 486-489
BodyTooLong(row) ==
    /\ processor.max_body_length # <<>>
    /\ BodyFacts(row.body).length > processor.max_body_length[1]

\* lines 495-496
CountSkipped(ps) ==
    [ps EXCEPT !.skipped_stats.total_skipped = @ + 1,
               !.skipped_stats.skipped_body_too_long = @ + 1]

\* StreamingProcessor._normalize_row: has_url is mapped to urls and converted
normalize_row(row) ==
    [sender |-> row.sender, receiver |-> row.receiver, date |-> "",
     subject |-> row.subject, body |-> row.body,
     urls |-> IF row.has_url \in {"true", "1", "yes", "on"} THEN "true" ELSE "",
     label |-> ""]

\* EmailData.from_dict
from_dict(data) == Email(data.sender, data.subject, data.body, data.urls)

\* the answers of the model to the emails of the input: a domain, or unsure
AnswersToRows == {out \in LLMOutputs : out.primary_domain \in {"healthcare", "unsure"}}

\* HybridClassifier.classify when it returns: the agreement path, or the
\* semantic call with each answer of the model
HybridReturns(st, r1, r2) ==
    IF classifiers_agree(r1, r2)
    THEN {[domain |-> r1.domain, path |-> "classic_only",
           stats |-> CountAgreement(CountProcessed(st))]}
    ELSE {[domain |-> DomainOrUnsure(convert_to_classification_result(
                                         validate_result(out))),
           path |-> "llm_assisted",
           stats |-> CountLLMCall(CountProcessed(st), 1)] : out \in AnswersToRows}

\* lines 511-516: classifier.classify_dict(normalized_row, ...) when it returns
ClassifyReturns(st, e) ==
    IF processor.use_hybrid
    THEN HybridReturns(st, KeywordClassify(domains, e), StructuralClassify(domains, e))
    ELSE {[domain |-> EmailClassifierClassify(domains, e, hash_seed).domain,
           path |-> "combined", stats |-> st]}

\* line 605: self.stats.total_unsure += 1 after the row was written to the
\* unsure file by the exception handler
CountFallbackWrite(ps) == [ps EXCEPT !.total_unsure = @ + 1]

\* lines 542-548
CountRow(ps, domain) ==
    [ps EXCEPT !.total_processed = @ + 1,
               !.domain_counts[domain] = @ + 1,
               !.total_classified = IF domain # "unsure" THEN @ + 1 ELSE @,
               !.total_unsure = IF domain = "unsure" THEN @ + 1 ELSE @]

\* lines 622-631
CollectHybridStats(ps, st) ==
    [ps EXCEPT !.hybrid_workflow =
        [llm_call_count |-> st.llm_call_count,
         llm_total_time_ms |-> st.llm_total_time_ms,
         classic_agreement_count |-> st.classic_agreement_count,
         total_hybrid_processed |-> st.total_processed]]

hybrid_locals == <<pc, result3, details, final_domain, attempt, invocations,
                   elapsed_ms, llm_outcome, caught, raised_by, emitted, outcome,
                   stats_before, calls_made, classic_paths>>

beside_processor == <<config, hybrid_locals, op, email, result1, result2, budget,
                      scorer_state, combiner_state, config_state, agent_state,
                      thread_state>>

ProcessorInit ==
    /\ domains = Tax3
    /\ hash_seed = "forward"
    /\ processor \in ProcessorConfigs
    /\ llm_classifier = IF processor.use_hybrid THEN "LLMClassifier" ELSE None
    /\ retry_count = 0
    /\ NoCallYet
    /\ op = None
    /\ email = NoEmail
    /\ result1 = NoResult
    /\ result2 = NoResult
    /\ budget = 0
    /\ ScorerIdle
    /\ CombinerIdle
    /\ ConfigIdle
    /\ AgentIdle
    /\ ThreadsIdle
    /\ input_rows \in SeqsUpTo(RowKinds, MaxRows)
    /\ process_pc = "idle"
    /\ row_idx = 0
    /\ processing_stats = ProcessingStats
    /\ written = NothingWritten
    /\ classify_calls = <<>>
    /\ raised_rows = {}
    /\ runs_begun = 0

\* lines 408-447: process is entered; `written` is what this run writes
Process ==
    /\ process_pc \in {"idle", "finished", "raised"}
    /\ runs_begun < MaxRuns
    /\ runs_begun' = runs_begun + 1
    /\ processing_stats' = ProcessingStats
    /\ row_idx' = 0
    /\ written' = NothingWritten
    /\ classify_calls' = <<>>
    /\ raised_rows' = {}
    /\ process_pc' = "loop"
    /\ UNCHANGED <<stats, input_rows, processor, beside_processor>>

InLoop == process_pc = "loop" /\ row_idx < Len(input_rows)

CurrentRow == input_rows[row_idx + 1]

\* lines 453-483: the row fails validation; in strict mode the ValueError of
\* line 478 is re-raised at line 584 and leaves process
RowInvalid ==
    /\ InLoop
    /\ EmailValidator_validate(CurrentRow) # <<>>
    /\ written' = [written EXCEPT !.invalid =
                        Append(@, <<row_idx, EmailValidator_validate(CurrentRow)>>)]
    /\ processing_stats' = CountInvalid(processing_stats,
                                        EmailValidator_validate(CurrentRow))
    /\ row_idx' = row_idx + 1
    /\ process_pc' = IF processor.strict_validation THEN "raised" ELSE process_pc
    /\ UNCHANGED <<stats, input_rows, processor, classify_calls, raised_rows,
                   runs_begun, beside_processor>>

\* lines 486-505: the body of a valid row is longer than max_body_length
RowSkipped ==
    /\ InLoop
    /\ EmailValidator_validate(CurrentRow) = <<>>
    /\ BodyTooLong(CurrentRow)
    /\ written' = [written EXCEPT !.skipped = Append(@, <<row_idx, "body_too_long">>)]
    /\ processing_stats' = CountSkipped(processing_stats)
    /\ row_idx' = row_idx + 1
    /\ UNCHANGED <<stats, input_rows, processor, process_pc, classify_calls,
                   raised_rows, runs_begun, beside_processor>>

\* lines 508-564: the row is classified, written and counted
RowClassified ==
    /\ InLoop
    /\ EmailValidator_validate(CurrentRow) = <<>>
    /\ ~BodyTooLong(CurrentRow)
    /\ \E out \in ClassifyReturns(stats, from_dict(normalize_row(CurrentRow))) :
        /\ stats' = out.stats
        /\ classify_calls' = Append(classify_calls, <<row_idx, out.path>>)
        /\ written' = [written EXCEPT !.output = Append(@, <<row_idx, out.domain>>)]
        /\ processing_stats' = CountRow(processing_stats, out.domain)
    /\ row_idx' = row_idx + 1
    /\ UNCHANGED <<input_rows, processor, process_pc, raised_rows, runs_begun,
                   beside_processor>>

\* the calls of the loop body that can raise for this row
RaisePoints(row) ==
    IF EmailValidator_validate(row) # <<>> THEN {"invalid_writer.write"}
    ELSE IF BodyTooLong(row) THEN {"skipped_writer.write"}
    ELSE {"write_email"} \cup (IF processor.use_hybrid THEN {"classify_dict"} ELSE {})

\* a write fails with OSError; csv.DictWriter.writerow raises ValueError for a
\* row with more fields than the header; HybridClassifier.classify passes on
\* what its status callback or workflow logger raises
ExceptionsAt(point) ==
    IF point = "write_email" THEN {"ValueError", "OSError"} ELSE {"OSError"}

\* lines 581-607: the handlers; after an exception other than ValueError the
\* row is written to the unsure file, unless that write raises as well
Handled(ps, exception, fallback_written) ==
    IF exception = "ValueError"
    THEN IF processor.strict_validation THEN ps ELSE [ps EXCEPT !.errors = @ + 1]
    ELSE IF fallback_written
    THEN CountFallbackWrite([ps EXCEPT !.errors = @ + 1])
    ELSE [ps EXCEPT !.errors = @ + 1]

\* what the classifier did before the exception was raised
BeforeRaise(point, out) ==
    /\ point = "classify_dict" =>
            /\ stats' = CountProcessed(stats)
            /\ classify_calls' = Append(classify_calls, <<row_idx, "raised">>)
    /\ point = "write_email" =>
            /\ stats' = out.stats
            /\ classify_calls' = Append(classify_calls, <<row_idx, out.path>>)
    /\ point \notin {"classify_dict", "write_email"} =>
            UNCHANGED <<stats, classify_calls>>

\* a call of the loop body raises while this row is handled
RowRaises ==
    /\ InLoop
    /\ \E point \in RaisePoints(CurrentRow), fallback_written \in BOOLEAN :
        \E exception \in ExceptionsAt(point) :
            /\ exception = "ValueError" => ~fallback_written
            /\ \E out \in ClassifyReturns(stats, from_dict(normalize_row(CurrentRow))) :
                    BeforeRaise(point, out)
            /\ processing_stats' = Handled(processing_stats, exception, fallback_written)
            /\ written' = IF fallback_written
                          THEN [written EXCEPT !.output = Append(@, <<row_idx, "unsure">>)]
                          ELSE written
            /\ process_pc' = IF exception = "ValueError" /\ processor.strict_validation
                             THEN "raised" ELSE process_pc
    /\ raised_rows' = raised_rows \cup {row_idx}
    /\ row_idx' = row_idx + 1
    /\ UNCHANGED <<input_rows, processor, runs_begun, beside_processor>>

\* lines 609-663: the loop is over, the files are closed and the statistics of
\* the hybrid classifier are copied
Finish ==
    /\ process_pc = "loop"
    /\ row_idx = Len(input_rows)
    /\ process_pc' = "finished"
    /\ processing_stats' = IF processor.use_hybrid
                           THEN CollectHybridStats(processing_stats, stats)
                           ELSE processing_stats
    /\ UNCHANGED <<stats, input_rows, processor, row_idx, written, classify_calls,
                   raised_rows, runs_begun, beside_processor>>

ProcessorNext ==
    \/ Process
    \/ RowInvalid
    \/ RowSkipped
    \/ RowClassified
    \/ RowRaises
    \/ Finish

ProcessorSpec == ProcessorInit /\ [][ProcessorNext]_vars

(***************************************************************************)
(* Two threads calling classify on one HybridClassifier (semantic          *)
(* classifier attached, no status callback, no workflow logger).  Each     *)
(* `self.stats.x += n` reads the attribute, adds, and stores the sum; a    *)
(* thread switch may fall between the read and the store.                  *)
(***************************************************************************)
Submissions == {"sequential", "concurrent"}

\* the statements of classify that touch self.stats, in program order on the
\* agreement path and on the semantic path
AgreementPath == <<"total_processed", "scorers", "classic_agreement_count">>
SemanticPath == <<"total_processed", "scorers", "semantic_call", "llm_call_count",
                  "llm_total_time_ms">>

Counters == {"total_processed", "classic_agreement_count", "llm_call_count",
             "llm_total_time_ms"}

\* variant for C23: the store writes back the value that was read
Incremented_lost(v) == v

\* x += 1 (and += elapsed_ms with a semantic call of one millisecond)
Incremented(v) == v + 1

\* the position after a statement: the next statement of the path, or the return
RECURSIVE After(_, _)
After(path, at) ==
    IF Len(path) < 2 THEN "idle"
    ELSE IF Head(path) = at THEN path[2]
    ELSE After(Tail(path), at)

PathOf(thread) == IF thread.agree THEN AgreementPath ELSE SemanticPath

\* the caller's discipline: with sequential submission a call begins only
\* after the previous one has returned
MayBegin(t) ==
    submission = "sequential" => \A u \in Threads : threads[u].pc = "idle"

ThreadsInit ==
    /\ domains = Tax3
    /\ hash_seed = "forward"
    /\ llm_classifier = "LLMClassifier"
    /\ retry_count = 0
    /\ NoCallYet
    /\ op = None
    /\ email = NoEmail
    /\ result1 = NoResult
    /\ result2 = NoResult
    /\ budget = MaxSubmissions
    /\ ScorerIdle
    /\ CombinerIdle
    /\ ConfigIdle
    /\ AgentIdle
    /\ ProcessorIdle
    /\ threads = [t \in Threads |-> IdleThread]
    /\ performed = HybridWorkflowStats
    /\ submission \in Submissions

beside_threads == <<config, hybrid_locals, op, email, result1, result2, scorer_state,
                    combiner_state, config_state, agent_state, processor_state,
                    submission>>

\* a thread enters classify(email)
Submit(t, e) ==
    /\ threads[t].pc = "idle"
    /\ budget > 0
    /\ MayBegin(t)
    /\ budget' = budget - 1
    /\ threads' = [threads EXCEPT ![t] = [IdleThread EXCEPT !.pc = "total_processed",
                                                             !.email = e]]
    /\ UNCHANGED <<stats, performed, beside_threads>>

\* the read of self.stats.<counter> (lines 888, 935, 983, 984)
Load(t) ==
    /\ threads[t].pc \in Counters
    /\ threads' = [threads EXCEPT ![t].loaded = stats[threads[t].pc],
                                  ![t].pc = <<"store", threads[t].pc>>]
    /\ UNCHANGED <<stats, performed, budget, beside_threads>>

\* the store that completes the statement
Store(t) ==
    /\ threads[t].pc \in {<<"store", c>> : c \in Counters}
    /\ stats' = [stats EXCEPT ![threads[t].pc[2]] = Incremented(threads[t].loaded)]
    /\ performed' = [performed EXCEPT ![threads[t].pc[2]] = @ + 1]
    /\ threads' = [threads EXCEPT ![t].pc = After(PathOf(threads[t]), threads[t].pc[2])]
    /\ UNCHANGED <<budget, beside_threads>>

\* lines 890-930: both scorers run and the agreement is determined
RunScorers(t) ==
    /\ threads[t].pc = "scorers"
    /\ threads' = [threads EXCEPT
            ![t].agree = classifiers_agree(KeywordClassify(domains, threads[t].email),
                                           StructuralClassify(domains, threads[t].email)),
            ![t].pc = IF classifiers_agree(KeywordClassify(domains, threads[t].email),
                                           StructuralClassify(domains, threads[t].email))
                      THEN "classic_agreement_count" ELSE "semantic_call"]
    /\ UNCHANGED <<stats, performed, budget, beside_threads>>

\* lines 976-981: llm_classifier.classify(email) returns
SemanticCall(t) ==
    /\ threads[t].pc = "semantic_call"
    /\ threads' = [threads EXCEPT ![t].pc = "llm_call_count"]
    /\ UNCHANGED <<stats, performed, budget, beside_threads>>

ThreadsNext ==
    \E t \in Threads :
        \/ \E e \in Emails(domains) : Submit(t, e)
        \/ Load(t)
        \/ Store(t)
        \/ RunScorers(t)
        \/ SemanticCall(t)

ThreadsSpec == ThreadsInit /\ [][ThreadsNext]_vars

(***************************************************************************)
(* Properties                                                              *)
(***************************************************************************)
HybridCall == op = "HybridClassifier.classify"

HybridReturned == HybridCall /\ pc = "idle" /\ outcome = "returned"

SameNonNullDomain ==
    result1.domain # None /\ result2.domain # None /\ result1.domain = result2.domain

\* C1: when the keyword and the structural classifier return the same
\* non-null domain, the semantic classifier is never invoked for that email:
\* the final domain is the shared domain, the path is classic_only,
\* classic_agreement_count grows by exactly 1 and the two LLM counters keep
\* the values they had when the call was entered, with or without an LLM.
C1_AgreementSkipsLLM ==
    (HybridCall /\ result2 # NoResult /\ SameNonNullDomain) =>
        /\ pc \in {"agreement", "agree_notify", "final", "idle"}
        /\ invocations = 0 /\ result3 = NoResult /\ llm_outcome = None
        /\ stats.llm_call_count = stats_before.llm_call_count
        /\ stats.llm_total_time_ms = stats_before.llm_total_time_ms
        /\ pc # "agreement" =>
              /\ final_domain = result1.domain
              /\ details.path = "classic_only"
              /\ stats.classic_agreement_count =
                     stats_before.classic_agreement_count + 1
        /\ pc = "idle" => details.final_domain = result1.domain

\* C1 witness: a call of a classifier with an LLM configured has returned on
\* an agreement, after an earlier call that did reach the LLM
C1_Witness ==
    /\ HybridReturned /\ SameNonNullDomain
    /\ llm_classifier # None
    /\ stats.llm_call_count > 0

\* C2 (as stated): after a semantic call whose every attempt failed, the
\* final domain is the 0.6/0.4 blend thresholded at 0.15, the path is
\* llm_assisted and llm_call_count is the one the call was entered with.
C2_FailureFallsBackToBlend ==
    (HybridReturned /\ llm_outcome = "failed") =>
        /\ details.final_domain = fallback_classification(result1, result2, hash_seed)
        /\ details.path = "llm_assisted"
        /\ stats.llm_call_count = stats_before.llm_call_count

NoLLMReturned == HybridReturned /\ llm_classifier = None

\* the 0.6/0.4 blend of the two heuristic score vectors of the current call
Blend ==
    WeightedSum(DOMAIN result1.scores \cup DOMAIN result2.scores, result1, result2,
                NoResult, R(6, 10), R(4, 10), Zero)

\* C4 (as stated): without an LLM, HybridClassifier returns the final domain
\* that EmailClassifier with the default weights returns for the same email
\* and taxonomy, agreement or not.
C4_SameAsEmailClassifier ==
    NoLLMReturned =>
        details.final_domain = EmailClassifierClassify(domains, email, hash_seed).domain

\* C4 (amended): without an LLM, HybridClassifier returns the final domain of
\* EmailClassifier whenever the two heuristics do not agree; when they agree
\* it returns the shared domain, which EmailClassifier replaces by unsure as
\* soon as the blended score of that domain is below 0.15.
C4_SameUnlessAgreement ==
    NoLLMReturned =>
        /\ ~SameNonNullDomain =>
              details.final_domain =
                  EmailClassifierClassify(domains, email, hash_seed).domain
        /\ SameNonNullDomain =>
              /\ details.final_domain = result1.domain
              /\ RLt(Blend[result1.domain], R(15, 100)) =>
                    EmailClassifierClassify(domains, email, hash_seed).domain = "unsure"

\* C4 witness: a call without LLM returned a domain chosen by the blend on a
\* disagreement of the two heuristics
C4_Witness ==
    /\ NoLLMReturned
    /\ result1.domain # None /\ result2.domain # None
    /\ result1.domain # result2.domain
    /\ details.final_domain # "unsure"

Labels == Range(DomainNames(domains)) \cup Range(DefaultDomainNames) \cup {"unsure"}

ClassifyDone ==
    pc = "idle" /\ op \in {"HybridClassifier.classify", "EmailClassifier.classify"}

CountersConsistent ==
    /\ stats.total_processed = calls_made
    /\ stats.classic_agreement_count = classic_paths
    /\ 0 <= stats.classic_agreement_count
    /\ stats.classic_agreement_count <= stats.total_processed
    /\ stats.llm_call_count <= stats.total_processed - stats.classic_agreement_count

NoCounterDecreases ==
    /\ stats'.total_processed >= stats.total_processed
    /\ stats'.classic_agreement_count >= stats.classic_agreement_count
    /\ stats'.llm_call_count >= stats.llm_call_count
    /\ stats'.llm_total_time_ms >= stats.llm_total_time_ms

\* C6: at every moment since construction or the last reset, total_processed
\* is the number of classify calls made, classic_agreement_count the number
\* of them that took the classic_only path, 0 <= classic_agreement_count <=
\* total_processed, llm_call_count <= total_processed -
\* classic_agreement_count, and only reset_stats lowers a counter.
C6_CountersConsistent ==
    /\ []CountersConsistent
    /\ [][ResetStats \/ NoCounterDecreases]_vars

\* C6 witness: after one call that took the classic_only path and one that
\* reached the semantic classifier
C6_Witness ==
    /\ pc = "idle"
    /\ stats.total_processed = 2
    /\ stats.classic_agreement_count = 1
    /\ stats.llm_call_count = 1

\* C7 (as stated): a classify call abandoned by an exception has changed none
\* of the four counters.
C7_AbandonedCallLeavesStats ==
    (HybridCall /\ pc = "idle" /\ outcome = "raised") => stats = stats_before

\* C8: one _invoke_llm call invokes the model at most retry_count + 1 times;
\* it stops at the first validated result, fails only after exactly
\* retry_count + 1 failed attempts, and every pass through the loop either
\* leaves it or moves attempt one step towards retry_count.
C8_BoundedRetries ==
    /\ [](/\ invocations <= retry_count + 1
          /\ llm_outcome = "failed" => invocations = retry_count + 1
          /\ llm_outcome = "success" => pc # "llm_invoke"
          /\ pc = "llm_invoke" => (attempt = invocations /\ attempt <= retry_count))
    /\ [][(pc = "llm_invoke" /\ pc' = "llm_invoke") => attempt' = attempt + 1]_vars
    /\ [][(llm_outcome # "success" /\ llm_outcome' = "success") =>
              (pc' = "llm_returned" /\ invocations' = invocations + 1)]_vars

\* C8 witness: a semantic call gave up after a retry: every one of its
\* retry_count + 1 >= 2 invocations failed
C8_Witness ==
    /\ llm_outcome = "failed"
    /\ retry_count >= 1
    /\ invocations = retry_count + 1

BothScored == HybridCall /\ pc = "agreement"

\* highest raw score of a heuristic for the current email
MaxRaw(raw) == raw[MaxKey(DomainNames(domains), raw)]

\* C9: the keyword classifier returns a non-null domain only when that
\* domain's normalized score is >= 0.05 and its raw score >= 1.5, the
\* structural classifier only when they are >= 0.04 and >= 2.0; a null
\* domain always comes with confidence 0.0.
C9_MinimumThresholds ==
    BothScored =>
        /\ result1.domain # None =>
              /\ RGe(result1.scores[result1.domain], R(5, 100))
              /\ RGe(KeywordRawScores(domains, email)[result1.domain], R(3, 2))
        /\ result1.domain = None => result1.confidence = Zero
        /\ result2.domain # None =>
              /\ RGe(result2.scores[result2.domain], R(4, 100))
              /\ RGe(StructuralRawScores(domains, email)[result2.domain], R(2, 1))
        /\ result2.domain = None => result2.confidence = Zero

\* C9 witness: the keyword classifier withheld a domain whose raw score
\* passes 1.5 because its normalized score is below 0.05, while the
\* structural classifier named a domain
C9_Witness ==
    /\ BothScored
    /\ result1.domain = None
    /\ RGe(MaxRaw(KeywordRawScores(domains, email)), R(3, 2))
    /\ result2.domain # None

AllZero(scores) == \A k \in DOMAIN scores : scores[k] = Zero

NormalizedVector(scores, raw) ==
    /\ DOMAIN scores = Range(DomainNames(domains))
    /\ \A k \in DOMAIN scores : RGe(scores[k], Zero)
    /\ RGt(SumValues(DomainNames(domains), raw), Zero) =>
          SumValues(DomainNames(domains), scores) = R(1, 1)
    /\ AllZero(raw) => AllZero(scores)

\* C10: the score vector of each heuristic classifier has one entry per
\* taxonomy domain, none negative; the entries sum to 1 whenever the raw
\* scores have a positive sum and are all zero when every raw score is zero.
C10_ScoreVector ==
    BothScored =>
        /\ NormalizedVector(result1.scores, KeywordRawScores(domains, email))
        /\ NormalizedVector(result2.scores, StructuralRawScores(domains, email))

\* C10 witness: an email without any keyword, whose keyword vector is all
\* zero while its structural vector sums to 1 over more than one domain
C10_Witness ==
    /\ BothScored
    /\ AllZero(result1.scores)
    /\ Len(domains) > 1
    /\ SumValues(DomainNames(domains), result2.scores) = R(1, 1)

\* ---- C11 ----
LastScoring ==
    IF op = "KeywordTaxonomyClassifier.classify"
    THEN [method |-> "keyword", result |-> result1]
    ELSE [method |-> "structural", result |-> result2]

SameAnswerAsBefore ==
    op # None =>
        \A r \in memo :
            (r.method = LastScoring.method /\ r.email = email)
                => r.result = LastScoring.result

Combined(d) ==
    RAdd(RMul(Get(result1.scores, d), R(6, 10)), RMul(Get(result2.scores, d), R(4, 10)))

Union == DOMAIN result1.scores \cup DOMAIN result2.scores

IsArgmax(d) == d \in Union /\ \A o \in Union : RLe(Combined(o), Combined(d))

Combiners == {"EmailClassifier.classify", "HybridClassifier._fallback_classification"}

C12_WitnessBelow ==
    /\ op = "HybridClassifier._fallback_classification"
    /\ decision.domain = "unsure"
    /\ decision.reason = "below_threshold"

\* ---- C13 ----
WithinTolerance(total) == ~Deviates(total)

\* C13: every LLMConfig that was constructed successfully has llm_weight +
\* keyword_weight + structural_weight within 0.001 of 1.0, whatever weights
\* were configured
C13_WeightsSumToOne ==
    llm_config.state = "constructed" => WithinTolerance(WeightTotal(llm_config))

\* the same for configured weights whose sum is positive, and the weights
\* EmailClassifier takes over
C13_PositiveWeightsSumToOne ==
    llm_config.state = "constructed" =>
        /\ RGt(WeightTotal(llm_config), Zero) => WithinTolerance(WeightTotal(llm_config))
        /\ weight_method # NoWeights =>
            RAdd(RAdd(weight_method.method_1, weight_method.method_2),
                 weight_method.method_3) = WeightTotal(llm_config)

\* ---- C14 ----
Validated == op \in {"LLMClassifier._validate_result",
                     "LLMClassifier._convert_to_classification_result"}

KnownNames == Range(DefaultDomainNames) \cup {"unsure"}

\* the classifications of the raw output whose normalized name is known
KnownOfRaw ==
    SelectSeq(raw_result.classifications,
              LAMBDA c : normalize_domain_name(LowerStrip(c.domain)) \in KnownNames)

\* C14: after _validate_result every classification names a known domain or
\* "unsure", as many are left as the raw output had with a known normalized
\* name, they are ordered by non-increasing confidence, primary_domain is the
\* domain of the first, and when none is left the result holds the single
\* classification "unsure" with confidence 0.3
C14_ValidatedResult ==
    Validated =>
        LET cs == llm_result.classifications
        IN /\ \A i \in 1..Len(cs) : cs[i].domain \in KnownNames
           /\ \A i \in 1..(Len(cs) - 1) : RGe(cs[i].confidence, cs[i + 1].confidence)
           /\ Len(cs) >= 1
           /\ llm_result.primary_domain = cs[1].domain
           /\ IF KnownOfRaw = <<>>
              THEN cs = <<DomainClassification("unsure", R(3, 10))>>
              ELSE Len(cs) = Len(KnownOfRaw)

\* two known names were left and changed places
C14_Witness ==
    /\ op = "LLMClassifier._validate_result"
    /\ Len(raw_result.classifications) = 2
    /\ raw_result.classifications[1].domain = "Banking"
    /\ RLt(raw_result.classifications[1].confidence,
           raw_result.classifications[2].confidence)
    /\ llm_result.primary_domain = "technology"

\* nothing was left and the synthetic classification stands in
C14_WitnessSynthetic ==
    /\ op = "LLMClassifier._validate_result"
    /\ raw_result.classifications # <<>>
    /\ llm_result.classifications = <<DomainClassification("unsure", R(3, 10))>>

\* ---- C15 ----
Converted == op = "LLMClassifier._convert_to_classification_result"

Produced == Converted \/ op = "LLMClassifier._create_fallback_result"

Mentioned(name) ==
    \E i \in 1..Len(llm_result.classifications) : llm_result.classifications[i].domain = name

NoDomainTwice ==
    \A i, j \in 1..Len(llm_result.classifications) :
        llm_result.classifications[i].domain = llm_result.classifications[j].domain
            => i = j

ScoresCoverKnownDomains ==
    /\ DOMAIN result3.scores = Range(DefaultDomainNames)
    /\ \A n \in Range(DefaultDomainNames) :
        (op = "LLMClassifier._create_fallback_result" \/ ~Mentioned(n))
            => result3.scores[n] = Zero

DomainKnownOrNull ==
    /\ result3.domain \in Range(DefaultDomainNames) \cup {None}
    /\ Converted => (result3.domain = None <=> llm_result.primary_domain = "unsure")
    /\ result3.domain = None => result3.confidence = Zero

ConfidenceIsTopScore ==
    result3.domain # None =>
        /\ result3.confidence = result3.scores[result3.domain]
        /\ \A n \in Range(DefaultDomainNames) :
            RLe(result3.scores[n], result3.scores[result3.domain])

\* C15 as stated: the result of the semantic classifier has a score for every
\* known domain (zero where the model named none), a domain that is known or
\* null (null exactly for the primary domain "unsure", then with confidence
\* zero), and a confidence that equals scores[domain] and is the highest score
C15_ResultShape ==
    Produced => ScoresCoverKnownDomains /\ DomainKnownOrNull /\ ConfidenceIsTopScore

\* C15, amended: the same, with confidence = scores[domain] = highest score
\* only for answers that name no domain twice after normalization
C15_ResultShapeUnlessRepeated ==
    Produced =>
        /\ ScoresCoverKnownDomains
        /\ DomainKnownOrNull
        /\ NoDomainTwice => ConfidenceIsTopScore

\* a result with a non-null domain made from an answer naming two domains
C15_Witness ==
    /\ Converted
    /\ result3.domain = "finance"
    /\ Len(llm_result.classifications) = 2
    /\ NoDomainTwice
    /\ RGt(result3.scores["technology"], Zero)

\* ---- C16 ----
Of(kind) == SelectSeq(emitted, LAMBDA e : e.kind = kind)

StepsOf(kind) == [i \in 1..Len(Of(kind)) |-> Of(kind)[i].step]

ScorerRuns == SelectSeq(StepsOf("classify"), LAMBDA s : s \in {"method1", "method2"})

\* C16: every classify call that reaches the agreement decision has by then run
\* the keyword classifier and after it the structural classifier, once each,
\* whatever the keyword classifier returned, and has decided nothing before;
\* the returned call has path classic_only (agreement true) exactly when both
\* domains are non-null and equal, llm_assisted (agreement false) otherwise,
\* and details.final_domain is the returned domain
C16_ScorersThenDecision ==
    /\ (HybridCall /\ pc \in {"keyword", "structural"}) =>
          /\ details.path = None
          /\ ScorerRuns = (IF pc = "keyword" THEN <<>> ELSE <<"method1">>)
    /\ (HybridCall /\ pc \notin {"idle", "keyword", "structural"}) =>
          ScorerRuns = <<"method1", "method2">>
    /\ HybridReturned =>
          /\ ScorerRuns = <<"method1", "method2">>
          /\ details.path = (IF SameNonNullDomain THEN "classic_only" ELSE "llm_assisted")
          /\ details.agreement = SameNonNullDomain
          /\ details.final_domain = final_domain

\* the structural classifier ran although the keyword classifier found nothing
C16_Witness ==
    /\ HybridReturned
    /\ result1.domain = None
    /\ result2.domain # None
    /\ details.path = "llm_assisted"

\* ---- C17 ----
FirstRecords == <<"keyword_classify", "structural_classify", "agreement_check">>

LastRecord == Of("log_step")[Len(Of("log_step"))]

FinalRecordCarriesResult ==
    /\ Of("log_step") # <<>>
    /\ LastRecord = Logged("final_result", final_domain, details.path)

NoticeBefore(i, message) == i > 1 /\ emitted[i - 1] = Status(message)

Times(event) == Len(SelectSeq(emitted, LAMBDA e : e = event))

SemanticCallEnded == pc \in {"llm_post", "final", "except_log"} \/ HybridReturned

\* C18: the status callback is called right before every run of the keyword,
\* the structural and the semantic classifier, once for each of the first two
\* in every call, and once more after every semantic call that has ended,
\* whether with a result or with its fallback result
C18_StatusAroundSteps ==
    HybridCall =>
        /\ \A i \in 1..Len(emitted) :
            /\ emitted[i] = Ran("method1") =>
                  NoticeBefore(i, "Classifying with Keyword Taxonomy...")
            /\ emitted[i] = Ran("method2") =>
                  NoticeBefore(i, "Classifying with Structural Template...")
            /\ emitted[i] = Ran("llm_classifier") =>
                  /\ NoticeBefore(i, "LLM called - waiting for response...")
                  /\ (SemanticCallEnded /\ pc # "llm_post") =>
                        \E j \in (i + 1)..Len(emitted) : emitted[j] = Status("LLM responded")
        /\ pc # "keyword" => Times(Status("Classifying with Keyword Taxonomy...")) = 1
        /\ Times(Ran("method2")) = 1 =>
              Times(Status("Classifying with Structural Template...")) = 1
        /\ Times(Ran("llm_classifier")) <= 1
        /\ Times(Status("LLM called - waiting for response...")) <= 1
        /\ Times(Status("LLM responded")) <= Times(Ran("llm_classifier"))

\* the semantic call failed and the callback was told that it has ended
C18_Witness ==
    /\ HybridReturned
    /\ llm_outcome = "failed"
    /\ Times(Ran("llm_classifier")) = 1
    /\ Times(Status("LLM responded")) = 1

\* ---- C19 ----
\* C19 as stated: no classify call ends with an exception of log_step
C19_LogFailureIsNotFatal ==
    ~(HybridCall /\ pc = "idle" /\ outcome = "raised" /\ raised_by = "log_step")

\* ---- C20 ----
StatsChangeOnlyIn ==
    stats' # stats =>
        op' \in {"HybridClassifier.classify", "HybridClassifier.reset_stats"}

\* C20: right after reset_stats all four counters are zero, whatever they were;
\* total_processed is the number of classify calls since the reset; and only
\* classify and reset_stats change a counter
C20_ResetStats ==
    /\ [](op = "HybridClassifier.reset_stats" => stats = HybridWorkflowStats)
    /\ [](stats.total_processed = calls_made)
    /\ [][StatsChangeOnlyIn]_vars

\* one call since a reset that followed an earlier call
C20_Witness ==
    /\ HybridReturned
    /\ budget = MaxCalls - 2
    /\ calls_made = 1
    /\ stats.total_processed = 1

(***************************************************************************)
(* The terms of the two scorers                                            *)
(***************************************************************************)
StructuralScoringDone == op = "StructuralTemplateClassifier.classify"

KeywordScoringDone == op = "KeywordTaxonomyClassifier.classify"

Profiles == {ProfileOf(domains, n) : n \in Range(DomainNames(domains))}

DisclaimerNeverPenalized(features, profile) ==
    DisclaimerScore(features, profile) =
        IF profile.has_disclaimer /\ ~features.has_disclaimer
        THEN Zero
        ELSE StructuralWeights.disclaimer

\* C24: the structural scorer awards the disclaimer weight 2.0 to a profile
\* unless the profile expects a disclaimer and the email has none; an email
\* with a disclaimer earns it also from a profile that expects none.
C24_DisclaimerNeverPenalized ==
    StructuralScoringDone =>
        \A profile \in Profiles :
            DisclaimerNeverPenalized(extract_features(email), profile)

UrlNeverZero(features, profile) ==
    /\ UrlScore(features, profile) =
            IF features.has_url = profile.url_expected THEN R(5, 2) ELSE R(3, 4)
    /\ RGe(score_template_match(features, profile), R(3, 4))
    /\ RLe(score_template_match(features, profile), R(31, 2))

\* C25: the url term of the structural scorer is 2.5 when has_url equals the
\* profile's url_expected and 0.75 otherwise; every domain's raw structural
\* score lies in [0.75, 15.5], the raw sum is positive and the score vector
\* of the result sums to 1.
C25_UrlNeverZero ==
    StructuralScoringDone =>
        /\ \A profile \in Profiles : UrlNeverZero(extract_features(email), profile)
        /\ RGt(SumValues(DomainNames(domains), StructuralRawScores(domains, email)),
               Zero)
        /\ SumValues(DomainNames(domains), result2.scores) = R(1, 1)
        /\ ~AllZero(result2.scores)

\* C25 witness: an email has been scored against a profile whose url
\* expectation it does not meet and against one whose expectation it meets
C25_Witness ==
    /\ StructuralScoringDone
    /\ \E profile \in Profiles : has_url(email) # profile.url_expected
    /\ \E profile \in Profiles : has_url(email) = profile.url_expected
    /\ SumValues(DomainNames(domains), result2.scores) = R(1, 1)

AnyMatch(patterns, matches) == \E i \in 1..Len(patterns) : patterns[i] \in matches

Matching(patterns, matches) == {i \in 1..Len(patterns) : patterns[i] \in matches}

OnceIfAny(patterns, matches, weight) ==
    AddOnFirstMatch(patterns, matches, weight) =
        IF AnyMatch(patterns, matches) THEN weight ELSE Zero

BodyContribution(e, profile) ==
    IF BodyFacts(e.body).words > 0
    THEN RAdd(DensityScore(CountOccurrences(profile.primary_keywords,
                                            BodyFacts(e.body).count),
                           BodyFacts(e.body).words,
                           KeywordWeights.primary_keyword, PrimaryDensityCap),
              DensityScore(CountOccurrences(profile.secondary_keywords,
                                            BodyFacts(e.body).count),
                           BodyFacts(e.body).words,
                           KeywordWeights.secondary_keyword, SecondaryDensityCap))
    ELSE Zero

\* the score without what the body adds: sender, subject pattern, subject keywords
HeaderBound(profile) ==
    RAdd(R(15, 2), RMul(R(5, 2), RInt(Cardinality(profile.primary_keywords))))

KeywordScoreBounded(e, profile) ==
    /\ OnceIfAny(profile.sender_patterns, SenderFacts(e.sender).matches, R(4, 1))
    /\ OnceIfAny(profile.subject_patterns, SubjectFacts(e.subject).matches, R(7, 2))
    /\ RLe(BodyContribution(e, profile), RInt(23))
    /\ BodyFacts(e.body).words = 0 => RLe(score_domain(e, profile), HeaderBound(profile))
    /\ RLe(score_domain(e, profile), RAdd(HeaderBound(profile), RInt(23)))

\* C26: in the keyword scorer the sender weight 4.0 and the subject-pattern
\* weight 3.5 are added once when any pattern matches and not otherwise, the
\* body adds at most 15 + 8, nothing when it has no words, and a domain's raw
\* score is at most 4.0 + 3.5 + 2.5 * (number of primary keywords) + 23.
C26_KeywordScoreBounded ==
    KeywordScoringDone =>
        \A profile \in Profiles : KeywordScoreBounded(email, profile)

\* C26 witness: an email whose sender matches two patterns of one profile and
\* whose primary keyword density reaches the cap of 15 has been scored
C26_Witness ==
    /\ KeywordScoringDone
    /\ \E profile \in Profiles :
          /\ Cardinality(Matching(profile.sender_patterns,
                                  SenderFacts(email.sender).matches)) > 1
          /\ DensityScore(CountOccurrences(profile.primary_keywords,
                                           BodyFacts(email.body).count),
                          BodyFacts(email.body).words,
                          KeywordWeights.primary_keyword, PrimaryDensityCap) = RInt(15)

\* C26 witness: an email with an empty body has been scored
C26_WitnessNoWords ==
    /\ KeywordScoringDone
    /\ BodyFacts(email.body).words = 0

(***************************************************************************)
(* The combiner when the semantic classifier fails, and under ties         *)
(***************************************************************************)
DualBlend(seed) ==
    CombinedDecision(result1, result2, NoResult, DEFAULT_WEIGHT_METHOD_1,
                     DEFAULT_WEIGHT_METHOD_2, Zero, seed)

\* C22: when the semantic classifier of the three-method combiner fails, the
\* returned domain is the one the dual-method combiner (weights 0.6 / 0.4,
\* threshold 0.15) returns for the same score vectors.
C22_SemanticFailureGivesDualBlend ==
    op = "EmailClassifier.classify, semantic classifier failed" =>
        decision.domain = DualBlend(hash_seed).domain

\* what the combiner that ran returns in a process with this string-hash seed
DecisionUnder(seed) ==
    IF op = "EmailClassifier.classify"
    THEN DualBlend(seed)
    ELSE CombineOver(DOMAIN result1.scores \cup DOMAIN result2.scores,
                     result1, result2, NoResult,
                     FallbackWeight1, FallbackWeight2, Zero, seed)

\* C28: for the same score vectors EmailClassifier.classify and
\* HybridClassifier._fallback_classification return the same domain whatever
\* the iteration order of the set of domain names, ties for the maximum
\* included.
C28_CombinerDeterministic ==
    op \in {"EmailClassifier.classify", "HybridClassifier._fallback_classification"} =>
        \A seed \in HashSeeds : decision.domain = DecisionUnder(seed).domain

(***************************************************************************)
(* The label and the taxonomy of the classifier                            *)
(***************************************************************************)
\* C27: the label HybridClassifier.classify returns is "unsure" or the name of
\* a domain of the taxonomy the classifier was constructed with, on every
\* path and for every taxonomy.
C27_LabelInOwnTaxonomy ==
    (HybridReturned /\ outcome = "returned") =>
        final_domain \in Range(DomainNames(domains)) \cup {"unsure"}

(***************************************************************************)
(* StreamingProcessor.process: where the rows go and how they are counted  *)
(***************************************************************************)
NonStrictRun == process_pc \in {"loop", "finished"} /\ ~processor.strict_validation

Consumed == 0..(row_idx - 1)

RowAt(i) == input_rows[i + 1]

FailsValidation(i) == EmailValidator_validate(RowAt(i)) # <<>>

LongerThanLimit(i) ==
    /\ processor.max_body_length # <<>>
    /\ BodyFacts(RowAt(i).body).length > processor.max_body_length[1]

TimesIn(file, i) == Cardinality({k \in 1..Len(file) : file[k][1] = i})

RoutedInvalid(i) ==
    /\ TimesIn(written.invalid, i) = 1
    /\ TimesIn(written.skipped, i) = 0
    /\ TimesIn(written.output, i) = 0
    /\ TimesIn(classify_calls, i) = 0

RoutedSkipped(i) ==
    /\ TimesIn(written.invalid, i) = 0
    /\ TimesIn(written.skipped, i) = 1
    /\ TimesIn(written.output, i) = 0
    /\ TimesIn(classify_calls, i) = 0

RoutedClassified(i) ==
    /\ TimesIn(written.invalid, i) = 0
    /\ TimesIn(written.skipped, i) = 0
    /\ TimesIn(written.output, i) = 1
    /\ TimesIn(classify_calls, i) = 1

Routed(i) ==
    IF FailsValidation(i) THEN RoutedInvalid(i)
    ELSE IF LongerThanLimit(i) THEN RoutedSkipped(i)
    ELSE RoutedClassified(i)

ErrorNames == {"invalid_sender_format", "invalid_receiver_format", "empty_sender",
               "empty_receiver", "empty_subject", "empty_body"}

\* the counters count the rows of this set, each in the counter of its outcome
CountersMatch(rows) ==
    /\ processing_stats.validation_stats.total_invalid =
            Cardinality({i \in rows : FailsValidation(i)})
    /\ \A error \in ErrorNames :
            processing_stats.validation_stats[ErrorCounter(error)] =
                Cardinality({i \in rows :
                                error \in Range(EmailValidator_validate(RowAt(i)))})
    /\ processing_stats.skipped_stats.total_skipped =
            Cardinality({i \in rows : ~FailsValidation(i) /\ LongerThanLimit(i)})
    /\ processing_stats.total_processed =
            Cardinality({i \in rows : ~FailsValidation(i) /\ ~LongerThanLimit(i)})

\* C21 (as stated): in non-strict mode every row goes to exactly one outcome: a
\* row failing validation to the invalid file, counted once in total_invalid
\* and once per error, never classified; a valid row whose body is longer than
\* max_body_length to the skipped file, counted once; every other row is
\* classified and counted in total_processed.
C21_EveryRowRouted ==
    NonStrictRun =>
        /\ \A i \in Consumed : Routed(i)
        /\ CountersMatch(Consumed)

\* C21 (amended): the same for every row whose handling raised nothing; a row
\* whose handling raised is counted once in errors and in none of
\* total_invalid, total_skipped and total_processed, and is written to neither
\* the invalid nor the skipped file.
C21_RoutedUnlessRaised ==
    NonStrictRun =>
        /\ \A i \in Consumed \ raised_rows : Routed(i)
        /\ CountersMatch(Consumed \ raised_rows)
        /\ processing_stats.errors = Cardinality(raised_rows)
        /\ \A i \in raised_rows :
                TimesIn(written.invalid, i) = 0 /\ TimesIn(written.skipped, i) = 0

\* C21 witness: a run with a body limit has finished after a row with two
\* validation errors went to the invalid file and a row whose body has
\* exactly the limit was classified
C21_Witness ==
    /\ process_pc = "finished"
    /\ ~processor.strict_validation
    /\ processor.max_body_length # <<>>
    /\ raised_rows = {}
    /\ \E i \in Consumed :
          /\ Len(EmailValidator_validate(RowAt(i))) > 1
          /\ RoutedInvalid(i)
    /\ \E i \in Consumed :
          /\ BodyFacts(RowAt(i).body).length = processor.max_body_length[1]
          /\ RoutedClassified(i)

\* C21 witness: a valid row with a body longer than the limit was skipped
C21_WitnessSkipped ==
    /\ process_pc = "finished"
    /\ ~processor.strict_validation
    /\ \E i \in Consumed : LongerThanLimit(i) /\ RoutedSkipped(i)

RECURSIVE SumCounts(_, _)
SumCounts(counts, keys) ==
    IF keys = {} THEN 0
    ELSE counts[CHOOSE k \in keys : TRUE]
            + SumCounts(counts, keys \ {CHOOSE k \in keys : TRUE})

EveryRowCountedOnce ==
    processing_stats.total_processed + processing_stats.validation_stats.total_invalid
        + processing_stats.skipped_stats.total_skipped + processing_stats.errors
    = Len(input_rows)

\* C29: after process has completed in non-strict mode, total_processed +
\* total_invalid + total_skipped + errors is the number of input rows, and
\* total_processed = total_classified + total_unsure = the sum of
\* domain_counts, also when classifying or writing a row raised.
C29_CountersAccountForRows ==
    (process_pc = "finished" /\ ~processor.strict_validation) =>
        /\ EveryRowCountedOnce
        /\ processing_stats.total_processed =
                processing_stats.total_classified + processing_stats.total_unsure
        /\ processing_stats.total_processed =
                SumCounts(processing_stats.domain_counts, OutputLabels)

\* the part of C29 that the code keeps: every row is counted once, and
\* total_processed is the sum of domain_counts
C29_RowsCountedOnce ==
    (process_pc = "finished" /\ ~processor.strict_validation) =>
        /\ EveryRowCountedOnce
        /\ processing_stats.total_processed =
                SumCounts(processing_stats.domain_counts, OutputLabels)

CallsOn(path) == Cardinality({k \in 1..Len(classify_calls) : classify_calls[k][2] = path})

HybridStatsOfThisRun ==
    /\ processing_stats.hybrid_workflow.total_hybrid_processed = Len(classify_calls)
    /\ processing_stats.hybrid_workflow.classic_agreement_count = CallsOn("classic_only")
    /\ processing_stats.hybrid_workflow.llm_call_count = CallsOn("llm_assisted")

\* C30: after each process run in hybrid mode the reported hybrid_workflow
\* statistics count the emails of that run only, also when process is called
\* several times with the same processor and classifier.
C30_HybridStatsOfThisRun ==
    (process_pc = "finished" /\ processor.use_hybrid) => HybridStatsOfThisRun

\* the first run on a fresh classifier reports its own emails
C30_FirstRunOnly ==
    (process_pc = "finished" /\ processor.use_hybrid /\ runs_begun = 1) =>
        HybridStatsOfThisRun

(***************************************************************************)
(* Concurrent and sequential submission                                    *)
(***************************************************************************)
AllReturned == \A t \in Threads : threads[t].pc = "idle"

\* C23: the counters of one HybridClassifier never exceed the number of
\* increments that were executed, and with strictly sequential submission
\* they equal it (no update is lost); two interleaved calls can lose an
\* update (the witnesses).
C23_UpdatesLostOnlyWhenConcurrent ==
    /\ \A c \in Counters : stats[c] <= performed[c]
    /\ submission = "sequential" => \A c \in Counters : stats[c] = performed[c]

\* C23 witness: two interleaved calls have returned and total_processed is
\* smaller than the number of calls that incremented it
C23_Witness ==
    /\ submission = "concurrent"
    /\ AllReturned
    /\ performed.total_processed = 2
    /\ stats.total_processed < performed.total_processed

\* C23 witness: the same for classic_agreement_count
C23_WitnessAgreement ==
    /\ submission = "concurrent"
    /\ AllReturned
    /\ stats.total_processed = performed.total_processed
    /\ stats.classic_agreement_count < performed.classic_agreement_count

\* C23 witness: the same for llm_call_count
C23_WitnessLLMCalls ==
    /\ submission = "concurrent"
    /\ AllReturned
    /\ stats.llm_call_count < performed.llm_call_count

====
